---------------------------- MODULE Spec2Model ----------------------------
(***************************************************************************)
(* Encrypted wallet custody and swap lifecycle of create_wallet:           *)
(* the wallet generators (walletGenerator.ts, bitcoin/solana/tron          *)
(* generators), the two IWalletDatabase stores (MockDatabase,              *)
(* MySQLDatabase), the ChangeNow gateway, and the three services           *)
(* (WalletService, TransactionService, SwapService).                       *)
(*                                                                         *)
(* Three specifications share the variables:                               *)
(*   SpecStore  one client driving one IWalletDatabase directly            *)
(*   Spec       the three services, each on the store the factory gave it  *)
(*   SpecVault  generateEncryptedWallet / decryptWallet of the four chains *)
(***************************************************************************)
EXTENDS Integers, Sequences, FiniteSets, TLC

(***************************************************************************)
(* Bounds of the model.                                                    *)
(***************************************************************************)
MaxWallets == 2        \* wallet rows one store ever creates (SpecStore)
MaxTransactions == 2   \* transaction rows one store ever creates
MaxSeed == 2           \* distinct outputs of the random generator (SpecVault)

(***************************************************************************)
(* JavaScript / SQL values.                                                *)
(***************************************************************************)
\* an optional number that was not given (chainId?: number)
Undefined == -1
\* SQL NULL as mysql2 returns it (x || null)
Null == -2
\* an optional string that was not given, and SQL NULL for a string column
UndefinedStr == "undefined"
NullStr == "null"

\* JS truthiness of an optional number
TruthyNum(x) == x # Undefined /\ x # Null /\ x # 0
\* JS truthiness of an optional string
TruthyStr(s) == s # UndefinedStr /\ s # NullStr /\ s # ""

\* x || d for numbers
OrNum(x, d) == IF TruthyNum(x) THEN x ELSE d
\* s || d for strings
OrStr(s, d) == IF TruthyStr(s) THEN s ELSE d

UpperChars == <<"A","B","C","D","E","F","G","H","I","J","K","L","M",
                "N","O","P","Q","R","S","T","U","V","W","X","Y","Z">>
LowerChars == <<"a","b","c","d","e","f","g","h","i","j","k","l","m",
                "n","o","p","q","r","s","t","u","v","w","x","y","z">>

\* String.prototype.toLowerCase on one character
LowerChar(c) ==
    IF \E i \in 1..26 : UpperChars[i] = c
    THEN LowerChars[CHOOSE i \in 1..26 : UpperChars[i] = c]
    ELSE c

\* String.prototype.toLowerCase; a string is its sequence of characters
toLowerCase(s) == [i \in 1..Len(s) |-> LowerChar(s[i])]

\* the Base58 alphabet of the Tron validator's regular expression
Base58Alphabet ==
    <<"1","2","3","4","5","6","7","8","9",
      "A","B","C","D","E","F","G","H","J","K","L","M","N","P","Q","R","S",
      "T","U","V","W","X","Y","Z",
      "a","b","c","d","e","f","g","h","i","j","k","m","n","o","p","q","r",
      "s","t","u","v","w","x","y","z">>

Base58Char(n) == Base58Alphabet[(n % 58) + 1]

(***************************************************************************)
(* Buffers and hex strings: crypto.randomBytes(n), buf.toString('hex'),    *)
(* Buffer.from(s, 'hex').                                                  *)
(***************************************************************************)
RandomLen == 16

\* crypto.randomBytes(size): the bytes the generator yields from one state
\* of its entropy pool (seed)
randomBytes(size, seed) == [i \in 1..size |-> (seed * 89 + i * 29) % 256]

\* buf.toString('hex'): two hex digits per byte
toHex(buf) ==
    [i \in 1..(2 * Len(buf)) |->
        IF i % 2 = 1 THEN buf[(i + 1) \div 2] \div 16 ELSE buf[i \div 2] % 16]

\* Buffer.from(hex) without the encoding: one byte per character
fromHex_PerCharacter(hex) == hex

\* Buffer.from(hex, 'hex'): one byte per two hex digits
fromHex(hex) ==
    [i \in 1..(Len(hex) \div 2) |-> hex[2 * i - 1] * 16 + hex[2 * i]]


(***************************************************************************)
(* Node's crypto as the generators use it.  PBKDF2 and AES are library     *)
(* primitives: a derived key is the tuple of what it was derived from      *)
(* (two derivations agree exactly when all inputs agree), a ciphertext is  *)
(* the tuple of what was encrypted and under which key and iv.  What the   *)
(* generators do with them (which salt, iteration count, iv and encoding   *)
(* go in on each side) is computed.                                        *)
(***************************************************************************)
\* crypto.pbkdf2Sync(password, salt, iterations, keylen, digest)
pbkdf2Sync(password, salt, iterations, keylen, digest) ==
    [password |-> password, salt |-> salt, iterations |-> iterations,
     keylen |-> keylen, digest |-> digest]

\* the text a decryption yields when the bytes are not those that were
\* encrypted: no SDK parses it as a key
Garbled == [kind |-> "garbled", key |-> 0, network |-> ""]

\* the text passed on as it came, no cipher applied
cipherHex_NotApplied(alg, key, iv, text) == text

\* createCipheriv(alg, key, iv); update(text, 'utf8', 'hex') + final('hex')
cipherHex(alg, key, iv, text) ==
    [alg |-> alg, key |-> key, iv |-> iv, text |-> text]

\* createDecipheriv(alg, key, iv); update(hex, 'hex', 'utf8') + final('utf8').
\* Under the key and iv of the encryption the text comes back.  Under the
\* right key and another iv only the first block differs, the padding is
\* intact.  Under another key every block is unrelated to the plaintext and
\* final() throws "bad decrypt" unless the last block happens to end in a
\* valid PKCS#7 pad (tailPadOk: about one wrong key in 256).
decipherUtf8(alg, key, iv, hex, tailPadOk) ==
    IF alg # hex.alg THEN [ok |-> FALSE, text |-> Garbled]
    ELSE IF key = hex.key /\ iv = hex.iv THEN [ok |-> TRUE, text |-> hex.text]
    ELSE IF key = hex.key THEN [ok |-> TRUE, text |-> Garbled]
    ELSE IF tailPadOk THEN [ok |-> TRUE, text |-> Garbled]
    ELSE [ok |-> FALSE, text |-> Garbled]

Iterations == 100000
KeyLen == 32

(***************************************************************************)
(* The chain SDKs: a key pair is identified by its key material (a         *)
(* number); the address is a one-way, collision-free function of it.       *)
(***************************************************************************)
\* ethers: wallet.privateKey ("0x" + hex) and wallet.address
EthPrivateKey(k) == [kind |-> "0xhex", key |-> k, network |-> ""]
EthAddress(k) == <<"0", "x", "A", "b", Base58Char(k)>>

\* bitcoinjs: keyPair.toWIF() carries the network's version byte;
\* payments.p2pkh address
BtcWIF(k, network) == [kind |-> "wif", key |-> k, network |-> network]
BtcAddress(k, network) ==
    <<(IF network = "mainnet" THEN "1" ELSE "m"), "B", "t", Base58Char(k)>>

\* solana: bs58.encode(keypair.secretKey), keypair.publicKey.toBase58()
SolSecretBs58(k) == [kind |-> "bs58", key |-> k, network |-> ""]
SolAddress(k) == <<"S", "o", "L", Base58Char(k)>>

\* tronweb: account.privateKey (hex) and account.address.base58
TronPrivateKey(k) == [kind |-> "hex", key |-> k, network |-> ""]
TronAddrLen == 34
TronAddress(k) ==
    <<"T">> \o [i \in 1..(TronAddrLen - 1) |-> Base58Char(k * 7 + i * 3)]


(***************************************************************************)
(* The four wallet generators.  rnd holds the three draws one generation   *)
(* makes: the key pair, the salt and the iv.                               *)
(***************************************************************************)
\* the result of a decryptWallet call: the SDK object, or the error thrown
Decrypted(privateKey, address) ==
    [ok |-> TRUE, error |-> "", privateKey |-> privateKey, address |-> address]
DecryptThrows(message) ==
    [ok |-> FALSE, error |-> message, privateKey |-> Garbled, address |-> <<>>]

\* generateEncryptedWallet with a salt and an iv that are not drawn anew
EthereumWalletGenerator_generateEncryptedWallet_Reused(password, rnd) ==
    LET privateKey == EthPrivateKey(rnd.key)
        salt == toHex(randomBytes(RandomLen, 0))
        iv == randomBytes(RandomLen, 1)
        key == pbkdf2Sync(password, salt, Iterations, KeyLen, "sha256")
    IN  [address |-> EthAddress(rnd.key),
         encryptedPrivateKey |-> cipherHex("aes-256-cbc", key, iv, privateKey),
         salt |-> salt,
         iv |-> toHex(iv)]

EthereumWalletGenerator_generateEncryptedWallet(password, rnd) ==
    LET privateKey == EthPrivateKey(rnd.key)
        salt == toHex(randomBytes(RandomLen, rnd.salt))
        iv == randomBytes(RandomLen, rnd.iv)
        key == pbkdf2Sync(password, salt, Iterations, KeyLen, "sha256")
    IN  [address |-> EthAddress(rnd.key),
         encryptedPrivateKey |-> cipherHex("aes-256-cbc", key, iv, privateKey),
         salt |-> salt,
         iv |-> toHex(iv)]

EthereumWalletGenerator_decryptWallet(encryptedWallet, password, tailPadOk) ==
    LET key == pbkdf2Sync(password, encryptedWallet.salt, Iterations, KeyLen, "sha256")
        iv == fromHex(encryptedWallet.iv)
        d == decipherUtf8("aes-256-cbc", key, iv,
                          encryptedWallet.encryptedPrivateKey, tailPadOk)
    IN  IF ~d.ok THEN DecryptThrows("bad decrypt")
        \* new ethers.Wallet(decryptedPrivateKey)
        ELSE IF d.text.kind \notin {"0xhex", "hex"} THEN DecryptThrows("invalid private key")
        ELSE Decrypted(d.text, EthAddress(d.text.key))

BitcoinWalletGenerator_generateEncryptedWallet(password, network, rnd) ==
    LET privateKeyWIF == BtcWIF(rnd.key, network)
        salt == toHex(randomBytes(RandomLen, rnd.salt))
        iv == randomBytes(RandomLen, rnd.iv)
        key == pbkdf2Sync(password, salt, Iterations, KeyLen, "sha256")
    IN  [address |-> BtcAddress(rnd.key, network),
         encryptedPrivateKey |-> cipherHex("aes-256-cbc", key, iv, privateKeyWIF),
         salt |-> salt,
         iv |-> toHex(iv),
         network |-> network]

BitcoinWalletGenerator_decryptWallet(encryptedWallet, password, tailPadOk) ==
    LET key == pbkdf2Sync(password, encryptedWallet.salt, Iterations, KeyLen, "sha256")
        iv == fromHex(encryptedWallet.iv)
        d == decipherUtf8("aes-256-cbc", key, iv,
                          encryptedWallet.encryptedPrivateKey, tailPadOk)
        network == IF encryptedWallet.network = "mainnet" THEN "mainnet" ELSE "testnet"
    IN  IF ~d.ok THEN DecryptThrows("bad decrypt")
        \* ECPair.fromWIF(wif, network): the checksum, then the version byte
        ELSE IF d.text.kind # "wif" THEN DecryptThrows("invalid checksum")
        ELSE IF d.text.network # network THEN DecryptThrows("invalid network version")
        ELSE Decrypted(d.text, BtcAddress(d.text.key, network))

SolanaWalletGenerator_generateEncryptedWallet(password, rnd) ==
    LET privateKeyString == SolSecretBs58(rnd.key)
        salt == toHex(randomBytes(RandomLen, rnd.salt))
        iv == randomBytes(RandomLen, rnd.iv)
        key == pbkdf2Sync(password, salt, Iterations, KeyLen, "sha256")
    IN  [address |-> SolAddress(rnd.key),
         encryptedPrivateKey |-> cipherHex("aes-256-cbc", key, iv, privateKeyString),
         salt |-> salt,
         iv |-> toHex(iv)]

SolanaWalletGenerator_decryptWallet(encryptedWallet, password, tailPadOk) ==
    LET key == pbkdf2Sync(password, encryptedWallet.salt, Iterations, KeyLen, "sha256")
        iv == fromHex(encryptedWallet.iv)
        d == decipherUtf8("aes-256-cbc", key, iv,
                          encryptedWallet.encryptedPrivateKey, tailPadOk)
    IN  IF ~d.ok THEN DecryptThrows("bad decrypt")
        \* bs58.decode, then Keypair.fromSecretKey
        ELSE IF d.text.kind # "bs58" THEN DecryptThrows("bad secret key")
        ELSE Decrypted(d.text, SolAddress(d.text.key))

\* validateTronAddress without the test of the length
validateTronAddress_AnyLength(address) ==
    IF Len(address) = 0 \/ address[1] # "T"
    THEN FALSE
    ELSE \A i \in 1..Len(address) :
            \E j \in 1..Len(Base58Alphabet) : Base58Alphabet[j] = address[i]

\* TronWalletGenerator.validateTronAddress
validateTronAddress(address) ==
    IF Len(address) = 0 \/ address[1] # "T" \/ Len(address) # TronAddrLen
    THEN FALSE
    ELSE \A i \in 1..Len(address) :
            \E j \in 1..Len(Base58Alphabet) : Base58Alphabet[j] = address[i]

\* generateEncryptedWallet from the account the SDK created
\* [ok, wallet]: the wallet, or "Generated address is invalid" thrown
TronWalletGenerator_encryptAccount(privateKey, address, password, rnd) ==
    LET salt == toHex(randomBytes(RandomLen, rnd.salt))
        iv == randomBytes(RandomLen, rnd.iv)
        key == pbkdf2Sync(password, salt, Iterations, KeyLen, "sha256")
    IN  IF ~validateTronAddress(address)
        THEN [ok |-> FALSE, error |-> "Generated address is invalid"]
        ELSE [ok |-> TRUE, error |-> "",
              address |-> address,
              encryptedPrivateKey |-> cipherHex("aes-256-cbc", key, iv, privateKey),
              salt |-> salt,
              iv |-> toHex(iv)]

TronWalletGenerator_generateEncryptedWallet(password, rnd) ==
    TronWalletGenerator_encryptAccount(TronPrivateKey(rnd.key), TronAddress(rnd.key),
                                       password, rnd)

\* decryptWallet without the validation of the address
TronWalletGenerator_decryptWallet_Unchecked(encryptedWallet, password, tailPadOk) ==
    LET key == pbkdf2Sync(password, encryptedWallet.salt, Iterations, KeyLen, "sha256")
        iv == fromHex(encryptedWallet.iv)
        d == decipherUtf8("aes-256-cbc", key, iv,
                          encryptedWallet.encryptedPrivateKey, tailPadOk)
    IN  IF ~d.ok THEN DecryptThrows("bad decrypt")
        ELSE Decrypted(d.text, encryptedWallet.address)

TronWalletGenerator_decryptWallet(encryptedWallet, password, tailPadOk) ==
    IF ~validateTronAddress(encryptedWallet.address)
    THEN DecryptThrows("Invalid Tron address format")
    ELSE
    LET key == pbkdf2Sync(password, encryptedWallet.salt, Iterations, KeyLen, "sha256")
        iv == fromHex(encryptedWallet.iv)
        d == decipherUtf8("aes-256-cbc", key, iv,
                          encryptedWallet.encryptedPrivateKey, tailPadOk)
    IN  IF ~d.ok THEN DecryptThrows("bad decrypt")
        \* the decrypted text is returned as it is
        ELSE Decrypted(d.text, encryptedWallet.address)


(***************************************************************************)
(* IWalletDatabase.  The data of a store is                                *)
(*   [wallets, transactions, walletIdCounter, transactionIdCounter];       *)
(* a call returns [db, ok, error, bool, recs]: the data after the call,    *)
(* whether it returned (ok) or threw (error: the message, split at ": "),  *)
(* and the boolean or the records it returned.  c is the connection state  *)
(* of the instance the call is made on.  createdAt, updatedAt and          *)
(* timestamp are not modelled.                                             *)
(***************************************************************************)
EmptyDb ==
    [wallets |-> <<>>, transactions |-> <<>>,
     walletIdCounter |-> 1, transactionIdCounter |-> 1]

Ret(d, bool, recs) ==
    [db |-> d, ok |-> TRUE, error |-> <<>>, bool |-> bool, recs |-> recs]
Throws(d, error) ==
    [db |-> d, ok |-> FALSE, error |-> error, bool |-> FALSE, recs |-> <<>>]

NotConnected == <<"Database not connected. Call connect() first.">>

\* Array.prototype.filter
Filter(seq, keep(_)) == SelectSeq(seq, keep)

Reverse(seq) == [i \in 1..Len(seq) |-> seq[Len(seq) + 1 - i]]

\* { ...record, ...data }: the fields of data override those of record
Spread(record, data) ==
    [f \in DOMAIN record \cup DOMAIN data |->
        IF f \in DOMAIN data THEN data[f] ELSE record[f]]

\* the members of a sequence
Ids(seq) == {seq[i] : i \in 1..Len(seq)}

\* Array.prototype.findIndex, 1-based; 0 for -1
FindIndex(seq, id) ==
    IF \E i \in 1..Len(seq) : seq[i].id = id
    THEN CHOOSE i \in 1..Len(seq) :
            seq[i].id = id /\ \A j \in 1..(i - 1) : seq[j].id # id
    ELSE 0

\* a store that takes every call for connected
ensureConnected_Skipped(c) == TRUE

\* ensureConnected of both stores: passes when the instance is connected
ensureConnected(c) == c

(***************************** MockDatabase ********************************)
MockDatabase_createWallet(d, c, userId, walletData) ==
    IF ~ensureConnected(c) THEN Throws(d, NotConnected)
    ELSE
    LET wallet == [id |-> d.walletIdCounter,
                   userId |-> userId,
                   walletType |-> walletData.walletType,
                   address |-> walletData.address,
                   encryptedPrivateKey |-> walletData.encryptedPrivateKey,
                   salt |-> walletData.salt,
                   iv |-> walletData.iv,
                   network |-> walletData.network,
                   chainId |-> walletData.chainId]
    IN  Ret([d EXCEPT !.walletIdCounter = @ + 1,
                      !.wallets = Append(@, wallet)],
            FALSE, <<wallet>>)

MockDatabase_getWallet(d, c, userId, address) ==
    IF ~ensureConnected(c) THEN Throws(d, NotConnected)
    ELSE
    LET found == Filter(d.wallets,
                    LAMBDA w : w.userId = userId
                               /\ toLowerCase(w.address) = toLowerCase(address))
    IN  Ret(d, FALSE, IF found = <<>> THEN <<>> ELSE <<Head(found)>>)

MockDatabase_getWalletById(d, c, walletId) ==
    IF ~ensureConnected(c) THEN Throws(d, NotConnected)
    ELSE
    LET found == Filter(d.wallets, LAMBDA w : w.id = walletId)
    IN  Ret(d, FALSE, IF found = <<>> THEN <<>> ELSE <<Head(found)>>)

MockDatabase_getWalletsByUser(d, c, userId) ==
    IF ~ensureConnected(c) THEN Throws(d, NotConnected)
    ELSE Ret(d, FALSE, Filter(d.wallets, LAMBDA w : w.userId = userId))

\* the filter with the chain id comparison left out
MockDatabase_getWalletsByChainId_UserOnly(d, c, userId, chainId) ==
    IF ~ensureConnected(c) THEN Throws(d, NotConnected)
    ELSE Ret(d, FALSE, Filter(d.wallets, LAMBDA w : w.userId = userId))

MockDatabase_getWalletsByChainId(d, c, userId, chainId) ==
    IF ~ensureConnected(c) THEN Throws(d, NotConnected)
    ELSE Ret(d, FALSE,
             Filter(d.wallets, LAMBDA w : w.userId = userId /\ w.chainId = chainId))

MockDatabase_updateWallet(d, c, walletId, data) ==
    IF ~ensureConnected(c) THEN Throws(d, NotConnected)
    ELSE
    LET index == FindIndex(d.wallets, walletId)
    IN  IF index = 0 THEN Ret(d, FALSE, <<>>)
        ELSE Ret([d EXCEPT !.wallets[index] = Spread(@, data)], TRUE, <<>>)

MockDatabase_deleteWallet(d, c, walletId) ==
    IF ~ensureConnected(c) THEN Throws(d, NotConnected)
    ELSE
    LET kept == Filter(d.wallets, LAMBDA w : w.id # walletId)
    IN  Ret([d EXCEPT !.wallets = kept], Len(kept) # Len(d.wallets), <<>>)

MockDatabase_recordTransaction(d, c, transactionData) ==
    IF ~ensureConnected(c) THEN Throws(d, NotConnected)
    ELSE
    LET transaction == Spread(transactionData, [id |-> d.transactionIdCounter])
    IN  Ret([d EXCEPT !.transactionIdCounter = @ + 1,
                      !.transactions = Append(@, transaction)],
            FALSE, <<transaction>>)

MockDatabase_getTransactionsByWallet(d, c, walletId) ==
    IF ~ensureConnected(c) THEN Throws(d, NotConnected)
    ELSE Ret(d, FALSE, Filter(d.transactions, LAMBDA t : t.walletId = walletId))

MockDatabase_getTransactionsByUser(d, c, userId) ==
    IF ~ensureConnected(c) THEN Throws(d, NotConnected)
    ELSE
    LET userWalletIds == {d.wallets[i].id :
                            i \in {j \in 1..Len(d.wallets) : d.wallets[j].userId = userId}}
    IN  Ret(d, FALSE, Filter(d.transactions, LAMBDA t : t.walletId \in userWalletIds))

MockDatabase_getTransactionsByHash(d, c, hash) ==
    IF ~ensureConnected(c) THEN Throws(d, NotConnected)
    ELSE
    LET found == Filter(d.transactions,
                        LAMBDA t : toLowerCase(t.hash) = toLowerCase(hash))
    IN  Ret(d, FALSE, IF found = <<>> THEN <<>> ELSE <<Head(found)>>)

MockDatabase_updateTransaction(d, c, id, data) ==
    IF ~ensureConnected(c) THEN Throws(d, NotConnected)
    ELSE
    LET index == FindIndex(d.transactions, id)
    IN  IF index = 0 THEN Ret(d, FALSE, <<>>)
        ELSE Ret([d EXCEPT !.transactions[index] = Spread(@, data)], TRUE, <<>>)


(***************************** MySQLDatabase *******************************)
(* fail is the number of the connection.execute call of the operation that *)
(* the server rejects (0: none).  Rows are kept in insertion order; a      *)
(* query that says ORDER BY timestamp DESC returns them newest first.      *)
(* VARCHAR comparison follows the default, case-insensitive collation.     *)
(***************************************************************************)
SqlError == "ER_QUERY_FAILED"
ForeignKeyError == "ER_NO_REFERENCED_ROW_2"

\* the fields of data named in fields
Pick(data, fields) == [f \in fields |-> data[f]]

\* FOREIGN KEY (wallet_id) REFERENCES wallets(id)
ReferencedWalletExists(d, walletId) ==
    \E i \in 1..Len(d.wallets) : d.wallets[i].id = walletId

MySQLDatabase_createWallet(d, c, userId, walletData, fail) ==
    IF ~ensureConnected(c) THEN Throws(d, NotConnected)
    ELSE IF fail = 1 THEN Throws(d, <<"Failed to create wallet", SqlError>>)
    ELSE
    LET row == [id |-> d.walletIdCounter,
                userId |-> userId,
                walletType |-> walletData.walletType,
                address |-> walletData.address,
                encryptedPrivateKey |-> walletData.encryptedPrivateKey,
                salt |-> walletData.salt,
                iv |-> walletData.iv,
                network |-> OrStr(walletData.network, NullStr),
                chainId |-> OrNum(walletData.chainId, Null)]
        inserted == [d EXCEPT !.walletIdCounter = @ + 1,
                              !.wallets = Append(@, row)]
    IN  IF fail = 2 THEN Throws(inserted, <<"Failed to create wallet", SqlError>>)
        ELSE Ret(inserted, FALSE, <<row>>)

MySQLDatabase_getWallet(d, c, userId, address, fail) ==
    IF ~ensureConnected(c) THEN Throws(d, NotConnected)
    ELSE IF fail = 1 THEN Throws(d, <<"Failed to get wallet", SqlError>>)
    ELSE
    LET rows == Filter(d.wallets,
                    LAMBDA w : w.userId = userId
                               /\ toLowerCase(w.address) = toLowerCase(address))
    IN  Ret(d, FALSE, IF Len(rows) > 0 THEN <<rows[1]>> ELSE <<>>)

MySQLDatabase_getWalletById(d, c, walletId, fail) ==
    IF ~ensureConnected(c) THEN Throws(d, NotConnected)
    ELSE IF fail = 1 THEN Throws(d, <<"Failed to get wallet by ID", SqlError>>)
    ELSE
    LET rows == Filter(d.wallets, LAMBDA w : w.id = walletId)
    IN  Ret(d, FALSE, IF Len(rows) > 0 THEN <<rows[1]>> ELSE <<>>)

MySQLDatabase_getWalletsByUser(d, c, userId, fail) ==
    IF ~ensureConnected(c) THEN Throws(d, NotConnected)
    ELSE IF fail = 1 THEN Throws(d, <<"Failed to get wallets by user", SqlError>>)
    ELSE Ret(d, FALSE, Filter(d.wallets, LAMBDA w : w.userId = userId))

MySQLDatabase_getWalletsByChainId(d, c, userId, chainId, fail) ==
    IF ~ensureConnected(c) THEN Throws(d, NotConnected)
    ELSE IF fail = 1 THEN Throws(d, <<"Failed to get wallets by chain ID", SqlError>>)
    ELSE Ret(d, FALSE,
             Filter(d.wallets,
                    LAMBDA w : w.userId = userId /\ w.chainId # Null
                               /\ w.chainId = chainId))

MySQLDatabase_updateWallet(d, c, walletId, data, fail) ==
    IF ~ensureConnected(c) THEN Throws(d, NotConnected)
    ELSE
    LET given == DOMAIN data
        setClauses ==
            {f \in {"address", "encryptedPrivateKey", "salt", "iv"} \cap given :
                data[f] # <<>>}
            \cup {f \in {"network"} \cap given : data[f] # UndefinedStr}
            \cup {f \in {"chainId"} \cap given : data[f] # Undefined}
        index == FindIndex(d.wallets, walletId)
    IN  IF fail = 1 THEN Throws(d, <<"Failed to update wallet", SqlError>>)
        ELSE IF index = 0 THEN Ret(d, FALSE, <<>>)
        ELSE Ret([d EXCEPT !.wallets[index] = Spread(@, Pick(data, setClauses))],
                 TRUE, <<>>)

MySQLDatabase_deleteWallet(d, c, walletId, fail) ==
    IF ~ensureConnected(c) THEN Throws(d, NotConnected)
    ELSE IF fail = 1 THEN Throws(d, <<"Failed to delete wallet", SqlError>>)
    ELSE
    LET related == [d EXCEPT !.transactions =
                        Filter(@, LAMBDA t : t.walletId # walletId)]
        kept == Filter(d.wallets, LAMBDA w : w.id # walletId)
    IN  IF fail = 2 THEN Throws(related, <<"Failed to delete wallet", SqlError>>)
        ELSE Ret([related EXCEPT !.wallets = kept],
                 Len(d.wallets) - Len(kept) > 0, <<>>)

\* recordTransaction rethrowing the error of the server as it came
MySQLDatabase_recordTransaction_Unwrapped(d, c, transaction, fail) ==
    IF ~ensureConnected(c) THEN Throws(d, NotConnected)
    ELSE IF fail = 1 THEN Throws(d, <<SqlError>>)
    ELSE IF ~ReferencedWalletExists(d, transaction.walletId)
    THEN Throws(d, <<ForeignKeyError>>)
    ELSE
    LET row == Spread(transaction,
                      [id |-> d.transactionIdCounter,
                       chainId |-> OrNum(transaction.chainId, Null),
                       fromChainId |-> OrNum(transaction.fromChainId, Null),
                       toChainId |-> OrNum(transaction.toChainId, Null)])
        inserted == [d EXCEPT !.transactionIdCounter = @ + 1,
                              !.transactions = Append(@, row)]
    IN  IF fail = 2
        THEN Throws(inserted, <<SqlError>>)
        ELSE Ret(inserted, FALSE, <<row>>)

\* recordTransaction with the two cross-chain columns left unbound
MySQLDatabase_recordTransaction_NoCrossChain(d, c, transaction, fail) ==
    IF ~ensureConnected(c) THEN Throws(d, NotConnected)
    ELSE IF fail = 1 THEN Throws(d, <<"Failed to record transaction", SqlError>>)
    ELSE IF ~ReferencedWalletExists(d, transaction.walletId)
    THEN Throws(d, <<"Failed to record transaction", ForeignKeyError>>)
    ELSE
    LET row == Spread(transaction,
                      [id |-> d.transactionIdCounter,
                       chainId |-> OrNum(transaction.chainId, Null),
                       fromChainId |-> Null,
                       toChainId |-> Null])
        inserted == [d EXCEPT !.transactionIdCounter = @ + 1,
                              !.transactions = Append(@, row)]
    IN  IF fail = 2
        THEN Throws(inserted, <<"Failed to record transaction", SqlError>>)
        ELSE Ret(inserted, FALSE, <<row>>)

\* recordTransaction keeping one row per wallet: REPLACE INTO on walletId
MySQLDatabase_recordTransaction_OnePerWallet(d, c, transaction, fail) ==
    IF ~ensureConnected(c) THEN Throws(d, NotConnected)
    ELSE IF fail = 1 THEN Throws(d, <<"Failed to record transaction", SqlError>>)
    ELSE IF ~ReferencedWalletExists(d, transaction.walletId)
    THEN Throws(d, <<"Failed to record transaction", ForeignKeyError>>)
    ELSE
    LET row == Spread(transaction,
                      [id |-> d.transactionIdCounter,
                       chainId |-> OrNum(transaction.chainId, Null),
                       fromChainId |-> OrNum(transaction.fromChainId, Null),
                       toChainId |-> OrNum(transaction.toChainId, Null)])
        others == Filter(d.transactions,
                         LAMBDA t : t.walletId # transaction.walletId)
        inserted == [d EXCEPT !.transactionIdCounter = @ + 1,
                              !.transactions = Append(others, row)]
    IN  IF fail = 2
        THEN Throws(inserted, <<"Failed to record transaction", SqlError>>)
        ELSE Ret(inserted, FALSE, <<row>>)

MySQLDatabase_recordTransaction(d, c, transaction, fail) ==
    IF ~ensureConnected(c) THEN Throws(d, NotConnected)
    ELSE IF fail = 1 THEN Throws(d, <<"Failed to record transaction", SqlError>>)
    ELSE IF ~ReferencedWalletExists(d, transaction.walletId)
    THEN Throws(d, <<"Failed to record transaction", ForeignKeyError>>)
    ELSE
    LET row == Spread(transaction,
                      [id |-> d.transactionIdCounter,
                       chainId |-> OrNum(transaction.chainId, Null),
                       fromChainId |-> OrNum(transaction.fromChainId, Null),
                       toChainId |-> OrNum(transaction.toChainId, Null)])
        inserted == [d EXCEPT !.transactionIdCounter = @ + 1,
                              !.transactions = Append(@, row)]
    IN  IF fail = 2
        THEN Throws(inserted, <<"Failed to record transaction", SqlError>>)
        ELSE Ret(inserted, FALSE, <<row>>)

MySQLDatabase_getTransactionsByWallet(d, c, walletId, fail) ==
    IF ~ensureConnected(c) THEN Throws(d, NotConnected)
    ELSE IF fail = 1
    THEN Throws(d, <<"Failed to get transactions by wallet", SqlError>>)
    ELSE Ret(d, FALSE,
             Reverse(Filter(d.transactions, LAMBDA t : t.walletId = walletId)))

MySQLDatabase_getTransactionsByUser(d, c, userId, fail) ==
    IF ~ensureConnected(c) THEN Throws(d, NotConnected)
    ELSE IF fail = 1
    THEN Throws(d, <<"Failed to get transactions by user", SqlError>>)
    ELSE
    LET joined(t) == \E i \in 1..Len(d.wallets) :
                        d.wallets[i].id = t.walletId /\ d.wallets[i].userId = userId
    IN  Ret(d, FALSE, Reverse(Filter(d.transactions, joined)))

MySQLDatabase_getTransactionsByHash(d, c, hash, fail) ==
    IF ~ensureConnected(c) THEN Throws(d, NotConnected)
    ELSE IF fail = 1
    THEN Throws(d, <<"Failed to get transaction by hash", SqlError>>)
    ELSE
    LET rows == Filter(d.transactions,
                       LAMBDA t : toLowerCase(t.hash) = toLowerCase(hash))
    IN  Ret(d, FALSE, IF Len(rows) > 0 THEN <<rows[1]>> ELSE <<>>)

MySQLDatabase_updateTransaction(d, c, id, data, fail) ==
    IF ~ensureConnected(c) THEN Throws(d, NotConnected)
    ELSE
    LET given == DOMAIN data
        setClauses ==
            {f \in {"status", "fee"} \cap given : data[f] # ""}
            \cup {f \in {"hash"} \cap given : data[f] # <<>>}
        index == FindIndex(d.transactions, id)
    IN  IF setClauses = {} THEN Ret(d, FALSE, <<>>)
        ELSE IF fail = 1 THEN Throws(d, <<"Failed to update transaction", SqlError>>)
        ELSE IF index = 0 THEN Ret(d, FALSE, <<>>)
        ELSE Ret([d EXCEPT !.transactions[index] = Spread(@, Pick(data, setClauses))],
                 TRUE, <<>>)

\* IWalletDatabase.getTransactionsByStatus: declared by the interface and
\* called by SwapService.updatePendingSwaps; neither store class defines it.
\* Modelled from the interface contract: the transactions with that status.
getTransactionsByStatus(d, c, status) ==
    IF ~ensureConnected(c) THEN Throws(d, NotConnected)
    ELSE Ret(d, FALSE, Filter(d.transactions, LAMBDA t : t.status = status))


(***************************************************************************)
(* this.db of a service: the store DatabaseFactory.createDatabase() built, *)
(* MockDatabase when DB_MOCK is 'true' (mock), else MySQLDatabase.         *)
(***************************************************************************)
db_createWallet(mock, d, c, userId, walletData, fail) ==
    IF mock THEN MockDatabase_createWallet(d, c, userId, walletData)
    ELSE MySQLDatabase_createWallet(d, c, userId, walletData, fail)
db_getWallet(mock, d, c, userId, address, fail) ==
    IF mock THEN MockDatabase_getWallet(d, c, userId, address)
    ELSE MySQLDatabase_getWallet(d, c, userId, address, fail)
db_getWalletById(mock, d, c, walletId, fail) ==
    IF mock THEN MockDatabase_getWalletById(d, c, walletId)
    ELSE MySQLDatabase_getWalletById(d, c, walletId, fail)
db_getWalletsByUser(mock, d, c, userId, fail) ==
    IF mock THEN MockDatabase_getWalletsByUser(d, c, userId)
    ELSE MySQLDatabase_getWalletsByUser(d, c, userId, fail)
db_getWalletsByChainId(mock, d, c, userId, chainId, fail) ==
    IF mock THEN MockDatabase_getWalletsByChainId(d, c, userId, chainId)
    ELSE MySQLDatabase_getWalletsByChainId(d, c, userId, chainId, fail)
db_updateWallet(mock, d, c, walletId, data, fail) ==
    IF mock THEN MockDatabase_updateWallet(d, c, walletId, data)
    ELSE MySQLDatabase_updateWallet(d, c, walletId, data, fail)
db_deleteWallet(mock, d, c, walletId, fail) ==
    IF mock THEN MockDatabase_deleteWallet(d, c, walletId)
    ELSE MySQLDatabase_deleteWallet(d, c, walletId, fail)
db_recordTransaction(mock, d, c, transaction, fail) ==
    IF mock THEN MockDatabase_recordTransaction(d, c, transaction)
    ELSE MySQLDatabase_recordTransaction(d, c, transaction, fail)
db_getTransactionsByWallet(mock, d, c, walletId, fail) ==
    IF mock THEN MockDatabase_getTransactionsByWallet(d, c, walletId)
    ELSE MySQLDatabase_getTransactionsByWallet(d, c, walletId, fail)
db_getTransactionsByUser(mock, d, c, userId, fail) ==
    IF mock THEN MockDatabase_getTransactionsByUser(d, c, userId)
    ELSE MySQLDatabase_getTransactionsByUser(d, c, userId, fail)
db_getTransactionsByHash(mock, d, c, hash, fail) ==
    IF mock THEN MockDatabase_getTransactionsByHash(d, c, hash)
    ELSE MySQLDatabase_getTransactionsByHash(d, c, hash, fail)
db_updateTransaction(mock, d, c, id, data, fail) ==
    IF mock THEN MockDatabase_updateTransaction(d, c, id, data)
    ELSE MySQLDatabase_updateTransaction(d, c, id, data, fail)

(***************************************************************************)
(* ChangeNowAPI.  What the exchange answers is an input of the call:       *)
(* "error" when the request fails, else the response body.  The mock       *)
(* client (API_MOCK) answers like an exchange that never fails.            *)
(***************************************************************************)
NetworkError == "Request failed"

SwapStatuses ==
    {"waiting", "confirming", "exchanging", "sending",
     "finished", "failed", "refunded"}

\* the id the exchange gives its n-th order
OrderId(n) == <<"c", "n", "-", Base58Char(n)>>

\* returns [ok, error, fee]
ChangeNowAPI_getExchangeRate(response) ==
    IF response = "error"
    THEN [ok |-> FALSE, error |-> <<"Failed to get exchange rate", NetworkError>>,
          fee |-> ""]
    ELSE [ok |-> TRUE, error |-> <<>>, fee |-> OrStr(response, "0")]

\* returns [ok, error, id]; orders is the number of orders the exchange holds
ChangeNowAPI_createTransaction(response, orders) ==
    IF response = "error"
    THEN [ok |-> FALSE, error |-> <<"Failed to create transaction", NetworkError>>,
          id |-> <<>>]
    ELSE [ok |-> TRUE, error |-> <<>>, id |-> OrderId(orders + 1)]

\* returns [ok, error, status]
ChangeNowAPI_getTransactionStatus(response) ==
    IF response = "error"
    THEN [ok |-> FALSE, error |-> <<"Failed to get transaction status", NetworkError>>,
          status |-> ""]
    ELSE [ok |-> TRUE, error |-> <<>>, status |-> response]

(***************************************************************************)
(* Services.  A service call returns what a store call returns, and        *)
(*   calls    the requests it sent to the exchange, in order               *)
(*   orders   the number of orders the exchange holds afterwards           *)
(*   asked    the records whose status it asked the exchange for, in order *)
(*   written  the records it called updateTransaction for, in order        *)
(*   count    the number a call returns (updatePendingSwaps)               *)
(***************************************************************************)
Svc(r, calls, orders, asked, written, count) ==
    [db |-> r.db, ok |-> r.ok, error |-> r.error, bool |-> r.bool,
     recs |-> r.recs, calls |-> calls, orders |-> orders, asked |-> asked,
     written |-> written, count |-> count]

TransactionService_recordTransaction(mock, d, c, tx, fail) ==
    db_recordTransaction(mock, d, c,
        [walletId |-> tx.walletId, transactionType |-> tx.transactionType,
         fromAddress |-> tx.fromAddress, toAddress |-> tx.toAddress,
         amount |-> tx.amount, currency |-> tx.currency, fee |-> tx.fee,
         status |-> tx.status, hash |-> tx.hash, chainId |-> tx.chainId,
         fromChainId |-> tx.fromChainId, toChainId |-> tx.toChainId],
        fail)

TransactionService_updateTransactionStatus(mock, d, c, id, status, fail) ==
    db_updateTransaction(mock, d, c, id, [status |-> status], fail)

TransactionService_updateTransactionHash(mock, d, c, id, hash, fail) ==
    db_updateTransaction(mock, d, c, id, [hash |-> hash], fail)

TransactionService_updateTransactionFee(mock, d, c, id, fee, fail) ==
    db_updateTransaction(mock, d, c, id, [fee |-> fee], fail)

\* createSwap with the order placed before the wallet is looked up
SwapService_createSwap_OrderFirst(mock, d, c, orders, walletId, req, gw, fail) ==
    LET wrap(error) == <<"Failed to create swap">> \o error
        swap == ChangeNowAPI_createTransaction(gw.create, orders)
        placed == IF swap.ok THEN orders + 1 ELSE orders
        found == db_getWalletById(mock, d, c, walletId, IF fail = 1 THEN 1 ELSE 0)
        rateData == ChangeNowAPI_getExchangeRate(gw.rate)
        recorded ==
            db_recordTransaction(mock, d, c,
                [walletId |-> walletId,
                 transactionType |-> "swap",
                 fromAddress |-> found.recs[1].address,
                 toAddress |-> req.toAddress,
                 amount |-> req.fromAmount,
                 currency |-> req.fromCurrency,
                 fee |-> rateData.fee,
                 status |-> "pending",
                 hash |-> swap.id,
                 chainId |-> req.fromChainId,
                 fromChainId |-> req.fromChainId,
                 toChainId |-> req.toChainId],
                IF fail > 1 THEN fail - 1 ELSE 0)
    IN  IF ~swap.ok
        THEN Svc(Throws(d, wrap(swap.error)), <<"createTransaction">>, placed, <<>>, <<>>, 0)
        ELSE IF ~found.ok
        THEN Svc(Throws(d, wrap(found.error)), <<"createTransaction">>, placed, <<>>, <<>>, 0)
        ELSE IF found.recs = <<>>
        THEN Svc(Throws(d, wrap(<<"Wallet with ID not found">>)),
                 <<"createTransaction">>, placed, <<>>, <<>>, 0)
        ELSE IF ~rateData.ok
        THEN Svc(Throws(d, wrap(rateData.error)),
                 <<"createTransaction", "getExchangeRate">>, placed, <<>>, <<>>, 0)
        ELSE IF ~recorded.ok
        THEN Svc(Throws(recorded.db, wrap(recorded.error)),
                 <<"createTransaction", "getExchangeRate">>, placed, <<>>, <<>>, 0)
        ELSE Svc(recorded, <<"createTransaction", "getExchangeRate">>, placed, <<>>, <<>>, 0)

\* fail: 1 the wallet query, 2 and 3 the two statements of recordTransaction
SwapService_createSwap(mock, d, c, orders, walletId, req, gw, fail) ==
    LET wrap(error) == <<"Failed to create swap">> \o error
        found == db_getWalletById(mock, d, c, walletId, IF fail = 1 THEN 1 ELSE 0)
        swap == ChangeNowAPI_createTransaction(gw.create, orders)
        rateData == ChangeNowAPI_getExchangeRate(gw.rate)
        placed == IF swap.ok THEN orders + 1 ELSE orders
        recorded ==
            db_recordTransaction(mock, d, c,
                [walletId |-> walletId,
                 transactionType |-> "swap",
                 fromAddress |-> found.recs[1].address,
                 toAddress |-> req.toAddress,
                 amount |-> req.fromAmount,
                 currency |-> req.fromCurrency,
                 fee |-> rateData.fee,
                 status |-> "pending",
                 hash |-> swap.id,
                 chainId |-> req.fromChainId,
                 fromChainId |-> req.fromChainId,
                 toChainId |-> req.toChainId],
                IF fail > 1 THEN fail - 1 ELSE 0)
    IN  IF ~found.ok
        THEN Svc(Throws(d, wrap(found.error)), <<>>, orders, <<>>, <<>>, 0)
        ELSE IF found.recs = <<>>
        THEN Svc(Throws(d, wrap(<<"Wallet with ID not found">>)), <<>>, orders, <<>>, <<>>, 0)
        ELSE IF ~swap.ok
        THEN Svc(Throws(d, wrap(swap.error)), <<"createTransaction">>, placed, <<>>, <<>>, 0)
        ELSE IF ~rateData.ok
        THEN Svc(Throws(d, wrap(rateData.error)),
                 <<"createTransaction", "getExchangeRate">>, placed, <<>>, <<>>, 0)
        ELSE IF ~recorded.ok
        THEN Svc(Throws(recorded.db, wrap(recorded.error)),
                 <<"createTransaction", "getExchangeRate">>, placed, <<>>, <<>>, 0)
        ELSE Svc(recorded, <<"createTransaction", "getExchangeRate">>, placed, <<>>, <<>>, 0)

SwapService_updateSwapStatus(mock, d, c, transactionId, status, fail) ==
    db_updateTransaction(mock, d, c, transactionId, [status |-> status], fail)

\* the mapping with the finished case left out
NewStatus_FinishedLeftOut(status) ==
    IF status = "failed" \/ status = "refunded" THEN "failed"
    ELSE "pending"

\* the mapping with an order the exchange is still sending taken as done
NewStatus_SendingCompleted(status) ==
    IF status = "finished" \/ status = "sending" THEN "completed"
    ELSE IF status = "failed" \/ status = "refunded" THEN "failed"
    ELSE "pending"

\* the status updatePendingSwaps stores for an exchange status
NewStatus(status) ==
    IF status = "finished" THEN "completed"
    ELSE IF status = "failed" \/ status = "refunded" THEN "failed"
    ELSE "pending"

\* the loop without the try/catch around its body: the first status request
\* that fails ends it
RECURSIVE UpdateEach_EndsAtFailure(_, _, _, _, _, _)
UpdateEach_EndsAtFailure(mock, c, swaps, responses, failId, acc) ==
    IF swaps = <<>> THEN acc
    ELSE
    LET swap == Head(swaps)
        swapStatus == ChangeNowAPI_getTransactionStatus(responses[swap.id])
        newStatus == NewStatus(swapStatus.status)
        updated == db_updateTransaction(mock, acc.db, c, swap.id,
                        [status |-> newStatus],
                        IF failId = swap.id THEN 1 ELSE 0)
        asked == [acc EXCEPT !.asked = Append(@, swap.id)]
        called == [asked EXCEPT !.written = Append(@, swap.id)]
        next ==
            IF newStatus = "pending" THEN asked
            ELSE IF ~updated.ok THEN called
            ELSE [called EXCEPT !.db = updated.db,
                                !.count = IF updated.bool THEN @ + 1 ELSE @]
    IN  IF ~swapStatus.ok THEN asked
        ELSE UpdateEach_EndsAtFailure(mock, c, Tail(swaps), responses, failId, next)

\* the body of the for loop of updatePendingSwaps, for the records in swaps;
\* the loop counting every swap whose status request was answered
RECURSIVE UpdateEach_CountsLookups(_, _, _, _, _, _)
UpdateEach_CountsLookups(mock, c, swaps, responses, failId, acc) ==
    IF swaps = <<>> THEN acc
    ELSE
    LET swap == Head(swaps)
        swapStatus == ChangeNowAPI_getTransactionStatus(responses[swap.id])
        newStatus == NewStatus(swapStatus.status)
        updated == db_updateTransaction(mock, acc.db, c, swap.id,
                        [status |-> newStatus],
                        IF failId = swap.id THEN 1 ELSE 0)
        asked == [acc EXCEPT !.asked = Append(@, swap.id)]
        called == [asked EXCEPT !.written = Append(@, swap.id)]
        next ==
            IF ~swapStatus.ok THEN asked
            ELSE IF newStatus = "pending" THEN [asked EXCEPT !.count = @ + 1]
            ELSE IF ~updated.ok THEN called
            ELSE [called EXCEPT !.db = updated.db, !.count = @ + 1]
    IN  UpdateEach_CountsLookups(mock, c, Tail(swaps), responses, failId, next)

\* acc is [db, count, asked, written]; responses[id] is what the exchange answers for
\* record id; failId is the record whose UPDATE the server rejects
RECURSIVE UpdateEach(_, _, _, _, _, _)
UpdateEach(mock, c, swaps, responses, failId, acc) ==
    IF swaps = <<>> THEN acc
    ELSE
    LET swap == Head(swaps)
        swapStatus == ChangeNowAPI_getTransactionStatus(responses[swap.id])
        newStatus == NewStatus(swapStatus.status)
        updated == db_updateTransaction(mock, acc.db, c, swap.id,
                        [status |-> newStatus],
                        IF failId = swap.id THEN 1 ELSE 0)
        asked == [acc EXCEPT !.asked = Append(@, swap.id)]
        called == [asked EXCEPT !.written = Append(@, swap.id)]
        next ==
            IF ~swapStatus.ok THEN asked
            ELSE IF newStatus = "pending" THEN asked
            ELSE IF ~updated.ok THEN called
            ELSE [called EXCEPT !.db = updated.db,
                                !.count = IF updated.bool THEN @ + 1 ELSE @]
    IN  UpdateEach(mock, c, Tail(swaps), responses, failId, next)

SwapService_updatePendingSwaps(mock, d, c, orders, responses, failId) ==
    LET pending == getTransactionsByStatus(d, c, "pending")
        pendingSwaps == Filter(pending.recs, LAMBDA tx : tx.transactionType = "swap")
        done == UpdateEach(mock, c, pendingSwaps, responses, failId,
                           [db |-> d, count |-> 0, asked |-> <<>>,
                            written |-> <<>>])
    IN  IF ~pending.ok
        THEN Svc(Throws(d, <<"Failed to update pending swaps">> \o pending.error),
                 <<>>, orders, <<>>, <<>>, 0)
        ELSE Svc(Ret(done.db, FALSE, <<>>),
                 [i \in 1..Len(done.asked) |-> "getTransactionStatus"],
                 orders, done.asked, done.written, done.count)


(***************************** WalletService *******************************)
\* the three values one generateEncryptedWallet call draws, after drawn
\* values were drawn before it: the new key, the salt and the iv
Draw(drawn) == [key |-> drawn + 1, salt |-> drawn + 2, iv |-> drawn + 3]
DrawsPerWallet == 3

CHAIN_IDS_ETHEREUM_MAINNET == 1
CHAIN_IDS_POLYGON_MAINNET == 137

\* CreateWalletData of a generated wallet
WalletData(walletType, wallet, network, chainId) ==
    [walletType |-> walletType,
     address |-> wallet.address,
     encryptedPrivateKey |-> wallet.encryptedPrivateKey,
     salt |-> wallet.salt,
     iv |-> wallet.iv,
     network |-> network,
     chainId |-> chainId]

WalletService_generateEthereumWallet(mock, d, c, userId, password, chainId, drawn, fail) ==
    LET ethWallet == EthereumWalletGenerator_generateEncryptedWallet(password, Draw(drawn))
    IN  db_createWallet(mock, d, c, userId,
            WalletData("ethereum", ethWallet, UndefinedStr, chainId), fail)

WalletService_generateBitcoinWallet(mock, d, c, userId, password, network, drawn, fail) ==
    LET btcWallet == BitcoinWalletGenerator_generateEncryptedWallet(
                        password, OrStr(network, "mainnet"), Draw(drawn))
    IN  db_createWallet(mock, d, c, userId,
            WalletData("bitcoin", btcWallet, btcWallet.network, Undefined), fail)

WalletService_generateSolanaWallet(mock, d, c, userId, password, drawn, fail) ==
    LET solWallet == SolanaWalletGenerator_generateEncryptedWallet(password, Draw(drawn))
    IN  db_createWallet(mock, d, c, userId,
            WalletData("solana", solWallet, UndefinedStr, Undefined), fail)

WalletService_generateTronWallet(mock, d, c, userId, password, drawn, fail) ==
    LET tronWallet == TronWalletGenerator_generateEncryptedWallet(password, Draw(drawn))
    IN  IF ~tronWallet.ok THEN Throws(d, <<tronWallet.error>>)
        ELSE db_createWallet(mock, d, c, userId,
                WalletData("tron", tronWallet, UndefinedStr, Undefined), fail)

\* failAt: the createWallet call (1..4) whose INSERT the server rejects
WalletService_generateAndStoreWallets(mock, d, c, userId, password, chainId, drawn, failAt) ==
    LET ethWallet == EthereumWalletGenerator_generateEncryptedWallet(password, Draw(drawn))
        ethWalletData == WalletData("ethereum", ethWallet, UndefinedStr,
                                    OrNum(chainId, CHAIN_IDS_ETHEREUM_MAINNET))
        storedEthWallet == db_createWallet(mock, d, c, userId, ethWalletData,
                                           IF failAt = 1 THEN 1 ELSE 0)
        btcWallet == BitcoinWalletGenerator_generateEncryptedWallet(
                        password, "mainnet", Draw(drawn + DrawsPerWallet))
        storedBtcWallet == db_createWallet(mock, storedEthWallet.db, c, userId,
                                WalletData("bitcoin", btcWallet, btcWallet.network, Undefined),
                                IF failAt = 2 THEN 1 ELSE 0)
        solWallet == SolanaWalletGenerator_generateEncryptedWallet(
                        password, Draw(drawn + 2 * DrawsPerWallet))
        storedSolWallet == db_createWallet(mock, storedBtcWallet.db, c, userId,
                                WalletData("solana", solWallet, UndefinedStr, Undefined),
                                IF failAt = 3 THEN 1 ELSE 0)
        tronWallet == TronWalletGenerator_generateEncryptedWallet(
                        password, Draw(drawn + 3 * DrawsPerWallet))
        storedTronWallet == db_createWallet(mock, storedSolWallet.db, c, userId,
                                WalletData("tron", tronWallet, UndefinedStr, Undefined),
                                IF failAt = 4 THEN 1 ELSE 0)
    IN  IF ~storedEthWallet.ok THEN storedEthWallet
        ELSE IF ~storedBtcWallet.ok THEN storedBtcWallet
        ELSE IF ~storedSolWallet.ok THEN storedSolWallet
        ELSE IF ~tronWallet.ok THEN Throws(storedSolWallet.db, <<tronWallet.error>>)
        ELSE IF ~storedTronWallet.ok THEN storedTronWallet
        ELSE Ret(storedTronWallet.db, FALSE,
                 << Spread(ethWallet, [chainId |-> ethWalletData.chainId]),
                    btcWallet, solWallet, tronWallet >>)


(***************************************************************************)
(* State.                                                                  *)
(*   useMock    DB_MOCK === 'true': which store the factory builds         *)
(*   connected  per store instance, whether it holds a connection          *)
(*   db         the data: of each MockDatabase instance, or of the one     *)
(*              MySQL database all MySQLDatabase instances talk to         *)
(*   orders     the number of orders the exchange holds                    *)
(*   drawn      the number of values drawn from the random generator       *)
(*   vault      SpecVault: the wallet generated and the last decryption    *)
(*   last       the last call: what was called, on which instance, with    *)
(*              which id, whether the instance was connected, what came    *)
(*              back, what the exchange answered (responses) and which     *)
(*              statement the database server rejected (fault), and the    *)
(*              user the call was made for where a property needs it       *)
(*   running    per caller, the call of createSwap or updatePendingSwaps   *)
(*              it is inside of: the await it stands at (pc) and the       *)
(*              locals of the call (SpecOverlap, SpecRace)                 *)
(*   exchange   the exchange as the status requests see it: the orders it  *)
(*              does not answer for at present (down) and the status of    *)
(*              each order (SpecRetry)                                     *)
(***************************************************************************)
VARIABLES useMock, connected, db, orders, drawn, vault, last, running, exchange

vars == <<useMock, connected, db, orders, drawn, vault, last, running, exchange>>

Instances == {"client", "walletService", "transactionService", "swapService"}
Databases == Instances \cup {"mysql"}

\* DatabaseFactory.createDatabase(): a new MockDatabase with its own arrays,
\* or a new MySQLDatabase on the configured database
Data(h) == IF useMock THEN h ELSE "mysql"

NoVault ==
    [chain |-> "none", wallet |-> <<>>, secret |-> Garbled, password |-> "",
     tried |-> "", result |-> DecryptThrows("")]

Call(op, h, id, r) ==
    [op |-> op, h |-> h, id |-> id, wasConnected |-> connected[h],
     ok |-> r.ok, error |-> r.error, bool |-> r.bool, recs |-> r.recs,
     calls |-> <<>>, asked |-> <<>>, written |-> <<>>, count |-> 0,
     responses |-> <<>>, fault |-> 0, user |-> ""]

SvcCall(op, h, id, r) ==
    [Call(op, h, id, r) EXCEPT !.calls = r.calls, !.asked = r.asked,
                               !.written = r.written, !.count = r.count]

\* the callers whose calls overlap
Procs == {1, 2}

\* a caller that is inside of no call
Idle ==
    [op |-> "none", pc |-> "idle", walletId |-> 0, pendingSwaps |-> <<>>,
     updatedCount |-> 0, newStatus |-> "", wallet |-> <<>>, swap |-> <<>>,
     fee |-> "", written |-> <<>>, recs |-> <<>>, error |-> <<>>, fault |-> 0]

Init ==
    /\ useMock \in BOOLEAN
    /\ connected = [h \in Instances |-> FALSE]
    /\ db = [b \in Databases |-> EmptyDb]
    /\ orders = 0
    /\ drawn = 0
    /\ vault = NoVault
    /\ last = [op |-> "new", h |-> "client", id |-> 0, wasConnected |-> FALSE,
               ok |-> TRUE, error |-> <<>>, bool |-> FALSE, recs |-> <<>>,
               calls |-> <<>>, asked |-> <<>>, written |-> <<>>, count |-> 0,
               responses |-> <<>>, fault |-> 0, user |-> ""]
    /\ running = [p \in Procs |-> Idle]
    /\ exchange = [down |-> {}, status |-> [n \in 1..MaxTransactions |-> "waiting"]]

\* a store call on instance h that returned r
Apply(op, h, id, r) ==
    /\ db' = [db EXCEPT ![Data(h)] = r.db]
    /\ last' = Call(op, h, id, r)
    /\ UNCHANGED <<useMock, connected, orders, drawn, vault, running, exchange>>

(***************************************************************************)
(* connect / disconnect of a store instance.  MySQLDatabase.connect may     *)
(* fail to reach the server; the tables exist once it has.                 *)
(***************************************************************************)
Connect(h, fail) ==
    LET refused == ~useMock /\ ~connected[h] /\ fail = 1
    IN  /\ connected' = [connected EXCEPT ![h] = IF refused THEN FALSE ELSE TRUE]
        /\ last' = Call("connect", h, 0,
                        IF refused
                        THEN Throws(db[Data(h)], <<"Database connection failed", NetworkError>>)
                        ELSE Ret(db[Data(h)], FALSE, <<>>))
        /\ UNCHANGED <<useMock, db, orders, drawn, vault, running, exchange>>

Disconnect(h) ==
    /\ connected' = [connected EXCEPT ![h] = FALSE]
    /\ last' = Call("disconnect", h, 0, Ret(db[Data(h)], FALSE, <<>>))
    /\ UNCHANGED <<useMock, db, orders, drawn, vault, running, exchange>>

(***************************************************************************)
(* SpecStore: one client calls the operations of IWalletDatabase on the    *)
(* store the factory built for it.                                         *)
(***************************************************************************)
Users == {"alice", "bob"}
WalletIds == 1..MaxWallets
TransactionIds == 1..MaxTransactions
\* the statements of an operation the server may reject; a MockDatabase
\* has no server
Fails(n) == IF useMock THEN {0} ELSE 0..n

HashA == <<"0", "x", "A", "1">>
HashB == <<"0", "x", "B", "2">>

\* the wallets the client stores
WalletSamples ==
    { WalletData("ethereum",
                 EthereumWalletGenerator_generateEncryptedWallet("pw1", Draw(0)),
                 UndefinedStr, CHAIN_IDS_POLYGON_MAINNET) }

\* the transactions the client records for a wallet id
TransactionSamples(walletId) ==
    { [walletId |-> walletId, transactionType |-> "send",
       fromAddress |-> EthAddress(1), toAddress |-> EthAddress(2),
       amount |-> "0.5", currency |-> "ETH", fee |-> "0.002",
       status |-> "pending", hash |-> HashA,
       chainId |-> CHAIN_IDS_ETHEREUM_MAINNET,
       fromChainId |-> Undefined, toChainId |-> Undefined],
      [walletId |-> walletId, transactionType |-> "swap",
       fromAddress |-> EthAddress(1), toAddress |-> EthAddress(2),
       amount |-> "5", currency |-> "USDT", fee |-> "0.1",
       status |-> "completed", hash |-> HashB,
       chainId |-> Undefined,
       fromChainId |-> CHAIN_IDS_ETHEREUM_MAINNET,
       toChainId |-> CHAIN_IDS_POLYGON_MAINNET] }

WalletUpdates == { [chainId |-> CHAIN_IDS_POLYGON_MAINNET] }
TransactionUpdates == { [status |-> "completed"], <<>> }

StoreConnect == \E fail \in Fails(1) : Connect("client", fail)
StoreDisconnect == Disconnect("client")

StoreCreateWallet ==
    \E userId \in Users, walletData \in WalletSamples, fail \in Fails(2) :
        /\ db[Data("client")].walletIdCounter <= MaxWallets
        /\ Apply("createWallet", "client", 0,
                 db_createWallet(useMock, db[Data("client")], connected["client"],
                                 userId, walletData, fail))

StoreGetWallet ==
    \E userId \in Users, walletData \in WalletSamples :
        Apply("getWallet", "client", 0,
              db_getWallet(useMock, db[Data("client")], connected["client"],
                           userId, walletData.address, 0))

StoreGetWalletById ==
    \E walletId \in WalletIds, fail \in Fails(1) :
        Apply("getWalletById", "client", walletId,
              db_getWalletById(useMock, db[Data("client")], connected["client"],
                               walletId, fail))

StoreGetWalletsByUser ==
    \E userId \in Users :
        Apply("getWalletsByUser", "client", 0,
              db_getWalletsByUser(useMock, db[Data("client")], connected["client"],
                                  userId, 0))

StoreGetWalletsByChainId ==
    \E userId \in Users, chainId \in {CHAIN_IDS_POLYGON_MAINNET} :
        Apply("getWalletsByChainId", "client", chainId,
              db_getWalletsByChainId(useMock, db[Data("client")], connected["client"],
                                     userId, chainId, 0))

StoreUpdateWallet ==
    \E walletId \in WalletIds, data \in WalletUpdates, fail \in Fails(1) :
        Apply("updateWallet", "client", walletId,
              db_updateWallet(useMock, db[Data("client")], connected["client"],
                              walletId, data, fail))

StoreDeleteWallet ==
    \E walletId \in WalletIds, fail \in Fails(2) :
        Apply("deleteWallet", "client", walletId,
              db_deleteWallet(useMock, db[Data("client")], connected["client"],
                              walletId, fail))

StoreRecordTransaction ==
    \E walletId \in WalletIds, fail \in Fails(2) :
        \E transaction \in TransactionSamples(walletId) :
            /\ db[Data("client")].transactionIdCounter <= MaxTransactions
            /\ Apply("recordTransaction", "client", walletId,
                     db_recordTransaction(useMock, db[Data("client")],
                                          connected["client"], transaction, fail))

StoreGetTransactionsByWallet ==
    \E walletId \in WalletIds :
        Apply("getTransactionsByWallet", "client", walletId,
              db_getTransactionsByWallet(useMock, db[Data("client")],
                                         connected["client"], walletId, 0))

StoreGetTransactionsByUser ==
    \E userId \in Users :
        Apply("getTransactionsByUser", "client", 0,
              db_getTransactionsByUser(useMock, db[Data("client")],
                                       connected["client"], userId, 0))

StoreGetTransactionsByHash ==
    \E hash \in {toLowerCase(HashA)} :
        Apply("getTransactionsByHash", "client", 0,
              db_getTransactionsByHash(useMock, db[Data("client")],
                                       connected["client"], hash, 0))

StoreGetTransactionsByStatus ==
    \E status \in {"pending"} :
        Apply("getTransactionsByStatus", "client", 0,
              getTransactionsByStatus(db[Data("client")], connected["client"], status))

StoreUpdateTransaction ==
    \E id \in TransactionIds, data \in TransactionUpdates, fail \in Fails(1) :
        Apply("updateTransaction", "client", id,
              db_updateTransaction(useMock, db[Data("client")], connected["client"],
                                   id, data, fail))

NextStore ==
    \/ StoreConnect
    \/ StoreDisconnect
    \/ StoreCreateWallet
    \/ StoreGetWallet
    \/ StoreGetWalletById
    \/ StoreGetWalletsByUser
    \/ StoreGetWalletsByChainId
    \/ StoreUpdateWallet
    \/ StoreDeleteWallet
    \/ StoreRecordTransaction
    \/ StoreGetTransactionsByWallet
    \/ StoreGetTransactionsByUser
    \/ StoreGetTransactionsByHash
    \/ StoreGetTransactionsByStatus
    \/ StoreUpdateTransaction

SpecStore == Init /\ [][NextStore]_vars


(***************************************************************************)
(* The services.  Each service owns the store instance its constructor got *)
(* from the factory: with DB_MOCK the three services hold three separate   *)
(* MockDatabase objects, otherwise three connections to one database.      *)
(***************************************************************************)
\* a service call on the instance of service h that returned r
ApplySvc(op, h, id, r, draws) ==
    /\ db' = [db EXCEPT ![Data(h)] = r.db]
    /\ orders' = r.orders
    /\ drawn' = drawn + draws
    /\ last' = SvcCall(op, h, id, r)
    /\ UNCHANGED <<useMock, connected, vault, running, exchange>>

\* the same, when the server rejected statement fault of the call
ApplyFaulty(op, h, id, r, fault) ==
    /\ db' = [db EXCEPT ![Data(h)] = r.db]
    /\ orders' = r.orders
    /\ last' = [SvcCall(op, h, id, r) EXCEPT !.fault = fault]
    /\ UNCHANGED <<useMock, connected, drawn, vault, running, exchange>>

\* a store result as a service result: no exchange traffic
Plain(r) == Svc(r, <<>>, orders, <<>>, <<>>, 0)

Owner == "alice"
Password == "pw1"

WalletInit == Connect("walletService", 0)
WalletCleanup == Disconnect("walletService")
TransactionInit == Connect("transactionService", 0)
TransactionCleanup == Disconnect("transactionService")
SwapInit == Connect("swapService", 0)
SwapCleanup == Disconnect("swapService")

\* fewer than MaxWallets wallets were generated so far
MayGenerate == drawn < DrawsPerWallet * MaxWallets

GenerateEthereumWallet ==
    \E chainId \in {CHAIN_IDS_ETHEREUM_MAINNET} :
        /\ MayGenerate
        /\ ApplySvc("generateEthereumWallet", "walletService", 0,
                Plain(WalletService_generateEthereumWallet(
                        useMock, db[Data("walletService")], connected["walletService"],
                        Owner, Password, chainId, drawn, 0)),
                DrawsPerWallet)

GenerateBitcoinWallet ==
    \E network \in {UndefinedStr, "testnet"} :
        /\ MayGenerate
        /\ ApplySvc("generateBitcoinWallet", "walletService", 0,
                Plain(WalletService_generateBitcoinWallet(
                        useMock, db[Data("walletService")], connected["walletService"],
                        Owner, Password, network, drawn, 0)),
                DrawsPerWallet)

GenerateSolanaWallet ==
    /\ MayGenerate
    /\ ApplySvc("generateSolanaWallet", "walletService", 0,
            Plain(WalletService_generateSolanaWallet(
                    useMock, db[Data("walletService")], connected["walletService"],
                    Owner, Password, drawn, 0)),
            DrawsPerWallet)

GenerateTronWallet ==
    /\ MayGenerate
    /\ ApplySvc("generateTronWallet", "walletService", 0,
            Plain(WalletService_generateTronWallet(
                    useMock, db[Data("walletService")], connected["walletService"],
                    Owner, Password, drawn, 0)),
            DrawsPerWallet)

GenerateAndStoreWallets ==
    \E chainId \in {Undefined, CHAIN_IDS_POLYGON_MAINNET}, failAt \in Fails(4) :
        /\ MayGenerate
        /\ ApplySvc("generateAndStoreWallets", "walletService", 0,
                Plain(WalletService_generateAndStoreWallets(
                        useMock, db[Data("walletService")], connected["walletService"],
                        Owner, Password, chainId, drawn, failAt)),
                4 * DrawsPerWallet)

GetWallets ==
    ApplySvc("getWallets", "walletService", 0,
        Plain(db_getWalletsByUser(useMock, db[Data("walletService")],
                                  connected["walletService"], Owner, 0)),
        0)

DeleteWallet ==
    \E walletId \in WalletIds :
        ApplySvc("deleteWallet", "walletService", walletId,
            Plain(db_deleteWallet(useMock, db[Data("walletService")],
                                  connected["walletService"], walletId, 0)),
            0)

\* the transfer the transaction service records for a wallet id
Transfer(walletId) ==
    [walletId |-> walletId, transactionType |-> "send",
     fromAddress |-> EthAddress(1), toAddress |-> EthAddress(2),
     amount |-> "0.5", currency |-> "ETH", fee |-> "0.002",
     status |-> "pending", hash |-> HashA,
     chainId |-> CHAIN_IDS_ETHEREUM_MAINNET,
     fromChainId |-> Undefined, toChainId |-> Undefined]

Statuses == {"pending", "completed", "failed"}

RecordTransaction ==
    \E walletId \in {1} :
        /\ db[Data("transactionService")].transactionIdCounter <= MaxTransactions
        /\ ApplySvc("recordTransaction", "transactionService", walletId,
                Plain(TransactionService_recordTransaction(
                        useMock, db[Data("transactionService")],
                        connected["transactionService"], Transfer(walletId), 0)),
                0)

UpdateTransactionStatus ==
    \E id \in TransactionIds, status \in Statuses :
        ApplySvc("updateTransactionStatus", "transactionService", id,
            Plain(TransactionService_updateTransactionStatus(
                    useMock, db[Data("transactionService")],
                    connected["transactionService"], id, status, 0)),
            0)

\* the swap a caller asks for: ETH on Ethereum to MATIC on Polygon
SwapRequest ==
    [fromCurrency |-> "ETH", toCurrency |-> "MATIC", fromAmount |-> "0.5",
     toAddress |-> EthAddress(7), refundAddress |-> EthAddress(8),
     fromChainId |-> CHAIN_IDS_ETHEREUM_MAINNET,
     toChainId |-> CHAIN_IDS_POLYGON_MAINNET]

\* what the exchange answers to the two requests of createSwap
GatewayAnswers == [create : {"ok", "error"}, rate : {"0.005", "error"}]

CreateSwap ==
    \E walletId \in WalletIds, gw \in GatewayAnswers, fail \in Fails(3) :
        /\ orders < MaxTransactions
        /\ db[Data("swapService")].transactionIdCounter <= MaxTransactions
        /\ ApplyFaulty("createSwap", "swapService", walletId,
                SwapService_createSwap(useMock, db[Data("swapService")],
                                       connected["swapService"], orders,
                                       walletId, SwapRequest, gw, fail),
                fail)

UpdateSwapStatus ==
    \E id \in TransactionIds, status \in Statuses :
        ApplySvc("updateSwapStatus", "swapService", id,
            Plain(SwapService_updateSwapStatus(
                    useMock, db[Data("swapService")], connected["swapService"],
                    id, status, 0)),
            0)

\* what the exchange answers when asked for the status of an order: an order
\* still in progress, each of the three final statuses, or no answer
StatusAnswers == {"waiting", "finished", "failed", "refunded", "error"}

\* the orders whose status the exchange may be asked for: the hashes of the
\* pending swaps the store of the swap service holds
OpenOrders ==
    LET d == db[Data("swapService")]
    IN  {d.transactions[i].id :
            i \in {j \in 1..Len(d.transactions) :
                      /\ d.transactions[j].status = "pending"
                      /\ d.transactions[j].transactionType = "swap"}}

UpdatePendingSwaps ==
    \E responses \in [OpenOrders -> StatusAnswers],
       failId \in IF useMock THEN {0} ELSE {0} \cup OpenOrders :
        LET r == SwapService_updatePendingSwaps(
                    useMock, db[Data("swapService")], connected["swapService"],
                    orders, responses, failId)
            asked == {r.asked[i] : i \in 1..Len(r.asked)}
        IN  /\ db' = [db EXCEPT ![Data("swapService")] = r.db]
            /\ last' = [SvcCall("updatePendingSwaps", "swapService", 0, r)
                            EXCEPT !.responses = [id \in asked |-> responses[id]],
                                   !.fault = failId]
            /\ UNCHANGED <<useMock, connected, orders, drawn, vault, running, exchange>>

Next ==
    \/ WalletInit
    \/ WalletCleanup
    \/ TransactionInit
    \/ TransactionCleanup
    \/ SwapInit
    \/ SwapCleanup
    \/ GenerateEthereumWallet
    \/ RecordTransaction
    \/ UpdateTransactionStatus
    \/ CreateSwap
    \/ UpdateSwapStatus
    \/ UpdatePendingSwaps

Spec == Init /\ [][Next]_vars

(***************************************************************************)
(* SpecWallets: the wallet service generates and deletes wallets, the swap *)
(* service opens swaps from them.                                          *)
(***************************************************************************)
NextWallets ==
    \/ WalletInit
    \/ WalletCleanup
    \/ SwapInit
    \/ GenerateEthereumWallet
    \/ GenerateBitcoinWallet
    \/ GenerateSolanaWallet
    \/ GenerateTronWallet
    \/ GenerateAndStoreWallets
    \/ GetWallets
    \/ DeleteWallet
    \/ CreateSwap

SpecWallets == Init /\ [][NextWallets]_vars

(***************************************************************************)
(* SpecChains: the wallet service generates Ethereum-compatible wallets    *)
(* for two users, with and without a chain id, and lists them by chain.    *)
(* last.id is the chain id argument, last.user the userId argument.        *)
(***************************************************************************)
ChainIds == {CHAIN_IDS_ETHEREUM_MAINNET, CHAIN_IDS_POLYGON_MAINNET}

\* a wallet service call made for userId
ApplyFor(op, userId, id, r, draws) ==
    /\ db' = [db EXCEPT ![Data("walletService")] = r.db]
    /\ drawn' = drawn + draws
    /\ last' = [Call(op, "walletService", id, r) EXCEPT !.user = userId]
    /\ UNCHANGED <<useMock, connected, orders, vault, running, exchange>>

\* generateEthereumWallet(userId, password) and
\* generateEthereumWallet(userId, password, chainId)
GenerateEthereumWalletOn ==
    \E userId \in Users, chainId \in ChainIds \cup {Undefined} :
        /\ MayGenerate
        /\ ApplyFor("generateEthereumWallet", userId, chainId,
                WalletService_generateEthereumWallet(
                    useMock, db[Data("walletService")], connected["walletService"],
                    userId, Password, chainId, drawn, 0),
                DrawsPerWallet)

GenerateAndStoreWalletsOn ==
    \E userId \in Users, chainId \in {Undefined, CHAIN_IDS_POLYGON_MAINNET} :
        /\ MayGenerate
        /\ ApplyFor("generateAndStoreWallets", userId, chainId,
                WalletService_generateAndStoreWallets(
                    useMock, db[Data("walletService")], connected["walletService"],
                    userId, Password, chainId, drawn, 0),
                4 * DrawsPerWallet)

GetWalletsByChain ==
    \E userId \in Users, chainId \in ChainIds :
        ApplyFor("getWalletsByChain", userId, chainId,
            db_getWalletsByChainId(useMock, db[Data("walletService")],
                                   connected["walletService"], userId, chainId, 0),
            0)

NextChains ==
    \/ WalletInit
    \/ WalletCleanup
    \/ GenerateEthereumWalletOn
    \/ GenerateAndStoreWalletsOn
    \/ GetWalletsByChain

SpecChains == Init /\ [][NextChains]_vars

(***************************************************************************)
(* SpecLedger: the wallet service stores one Ethereum wallet per call for  *)
(* one of two users, the transaction service records transfers and swaps   *)
(* against wallet ids and lists them by user, and the swap service asks    *)
(* the exchange for a rate.  last.user is the userId argument.             *)
(***************************************************************************)
GenerateWalletFor ==
    \E userId \in Users :
        /\ MayGenerate
        /\ ApplyFor("generateEthereumWallet", userId, CHAIN_IDS_ETHEREUM_MAINNET,
                WalletService_generateEthereumWallet(
                    useMock, db[Data("walletService")], connected["walletService"],
                    userId, Password, CHAIN_IDS_ETHEREUM_MAINNET, drawn, 0),
                DrawsPerWallet)

\* the transactionType, fromChainId and toChainId a caller passes to
\* recordTransaction: the last two are optional
Kinds ==
    { [transactionType |-> "receive", fromChainId |-> Undefined,
       toChainId |-> Undefined],
      [transactionType |-> "send", fromChainId |-> Undefined,
       toChainId |-> Undefined],
      [transactionType |-> "send", fromChainId |-> CHAIN_IDS_ETHEREUM_MAINNET,
       toChainId |-> CHAIN_IDS_POLYGON_MAINNET],
      [transactionType |-> "swap", fromChainId |-> CHAIN_IDS_ETHEREUM_MAINNET,
       toChainId |-> CHAIN_IDS_POLYGON_MAINNET] }

RecordTransactionOf ==
    \E walletId \in WalletIds, kind \in Kinds :
        /\ db[Data("transactionService")].transactionIdCounter <= MaxTransactions
        /\ ApplySvc("recordTransaction", "transactionService", walletId,
                Plain(TransactionService_recordTransaction(
                        useMock, db[Data("transactionService")],
                        connected["transactionService"],
                        Spread(Transfer(walletId), kind), 0)),
                0)

TransactionService_getTransactionsByUser(mock, d, c, userId, fail) ==
    db_getTransactionsByUser(mock, d, c, userId, fail)

GetTransactionsByUser ==
    \E userId \in Users :
        /\ db' = db
        /\ last' = [Call("getTransactionsByUser", "transactionService", 0,
                         TransactionService_getTransactionsByUser(
                             useMock, db[Data("transactionService")],
                             connected["transactionService"], userId, 0))
                    EXCEPT !.user = userId]
        /\ UNCHANGED <<useMock, connected, orders, drawn, vault, running, exchange>>

\* getExchangeRate with a persisting side effect
SwapService_getExchangeRate_Recorded(mock, d, c, orders_, req, response) ==
    LET rateData == ChangeNowAPI_getExchangeRate(response)
        recorded == db_recordTransaction(mock, d, TRUE,
                        Spread(Transfer(1), [transactionType |-> "swap",
                                             fee |-> rateData.fee]), 0)
    IN  Svc([db |-> recorded.db, ok |-> rateData.ok, error |-> rateData.error,
             bool |-> FALSE, recs |-> <<>>],
            <<"getExchangeRate">>, orders_, <<>>, <<>>, 0)

\* SwapService.getExchangeRate: the answer of the exchange client
SwapService_getExchangeRate(mock, d, c, orders_, req, response) ==
    LET rateData == ChangeNowAPI_getExchangeRate(response)
    IN  Svc([db |-> d, ok |-> rateData.ok, error |-> rateData.error,
             bool |-> FALSE, recs |-> <<>>],
            <<"getExchangeRate">>, orders_, <<>>, <<>>, 0)

RateAnswers == {"0.005", "", "error"}

GetExchangeRate ==
    \E response \in RateAnswers :
        ApplySvc("getExchangeRate", "swapService", 0,
            SwapService_getExchangeRate(useMock, db[Data("swapService")],
                                        connected["swapService"], orders,
                                        SwapRequest, response),
            0)

NextLedger ==
    \/ WalletInit
    \/ TransactionInit
    \/ GenerateWalletFor
    \/ RecordTransactionOf
    \/ GetTransactionsByUser
    \/ GetExchangeRate

SpecLedger == Init /\ [][NextLedger]_vars

(***************************************************************************)
(* SpecSwaps: the wallet service stores Ethereum wallets and the swap      *)
(* service creates swaps for wallet ids.  last.responses holds what the    *)
(* exchange answered to the order and to the rate request, last.fault the  *)
(* statement the database server rejected.                                 *)
(***************************************************************************)
PlaceSwap ==
    \E walletId \in WalletIds, gw \in GatewayAnswers, fail \in Fails(3) :
        /\ orders < MaxTransactions
        /\ db[Data("swapService")].transactionIdCounter <= MaxTransactions
        /\ LET r == SwapService_createSwap(useMock, db[Data("swapService")],
                                           connected["swapService"], orders,
                                           walletId, SwapRequest, gw, fail)
           IN  /\ db' = [db EXCEPT ![Data("swapService")] = r.db]
               /\ orders' = r.orders
               /\ last' = [SvcCall("createSwap", "swapService", walletId, r)
                           EXCEPT !.fault = fail,
                                  !.responses = <<gw.create, gw.rate>>]
        /\ UNCHANGED <<useMock, connected, drawn, vault, running, exchange>>

NextSwaps ==
    \/ WalletInit
    \/ SwapInit
    \/ GenerateWalletFor
    \/ PlaceSwap

SpecSwaps == Init /\ [][NextSwaps]_vars

(***************************************************************************)
(* SpecTwin: one client applies the same sequence of store operations to   *)
(* a connected MockDatabase (db["client"]) and to a connected              *)
(* MySQLDatabase (db["mysql"]), both empty at the start.  last holds what  *)
(* the MockDatabase returned, last.real what the MySQLDatabase returned.   *)
(***************************************************************************)
TwinOps ==
    {"createWallet", "getWalletById", "getWalletsByUser", "updateWallet",
     "deleteWallet", "recordTransaction", "getTransactionsByWallet",
     "getTransactionsByUser", "updateTransaction"}

\* the arguments of one call; an operation reads the ones it takes
\* Partial<WalletRecord>: the fields a caller may hand to updateWallet
WalletFieldUpdates ==
    WalletUpdates
        \cup { [userId |-> "bob"],
               [walletType |-> "bitcoin", network |-> "testnet"] }

TwinArgs ==
    [userId : {Owner}, walletId : WalletIds, walletData : WalletSamples,
     walletUpdate : WalletFieldUpdates, transactionId : {1},
     transactionUpdate : TransactionUpdates]

MockDatabase_call(op, d, a) ==
    CASE op = "createWallet" -> MockDatabase_createWallet(d, TRUE, a.userId, a.walletData)
      [] op = "getWalletById" -> MockDatabase_getWalletById(d, TRUE, a.walletId)
      [] op = "getWalletsByUser" -> MockDatabase_getWalletsByUser(d, TRUE, a.userId)
      [] op = "updateWallet" ->
            MockDatabase_updateWallet(d, TRUE, a.walletId, a.walletUpdate)
      [] op = "deleteWallet" -> MockDatabase_deleteWallet(d, TRUE, a.walletId)
      [] op = "recordTransaction" ->
            MockDatabase_recordTransaction(d, TRUE, Transfer(a.walletId))
      [] op = "getTransactionsByWallet" ->
            MockDatabase_getTransactionsByWallet(d, TRUE, a.walletId)
      [] op = "getTransactionsByUser" ->
            MockDatabase_getTransactionsByUser(d, TRUE, a.userId)
      [] op = "updateTransaction" ->
            MockDatabase_updateTransaction(d, TRUE, a.transactionId, a.transactionUpdate)

MySQLDatabase_call(op, d, a) ==
    CASE op = "createWallet" ->
            MySQLDatabase_createWallet(d, TRUE, a.userId, a.walletData, 0)
      [] op = "getWalletById" -> MySQLDatabase_getWalletById(d, TRUE, a.walletId, 0)
      [] op = "getWalletsByUser" -> MySQLDatabase_getWalletsByUser(d, TRUE, a.userId, 0)
      [] op = "updateWallet" ->
            MySQLDatabase_updateWallet(d, TRUE, a.walletId, a.walletUpdate, 0)
      [] op = "deleteWallet" -> MySQLDatabase_deleteWallet(d, TRUE, a.walletId, 0)
      [] op = "recordTransaction" ->
            MySQLDatabase_recordTransaction(d, TRUE, Transfer(a.walletId), 0)
      [] op = "getTransactionsByWallet" ->
            MySQLDatabase_getTransactionsByWallet(d, TRUE, a.walletId, 0)
      [] op = "getTransactionsByUser" ->
            MySQLDatabase_getTransactionsByUser(d, TRUE, a.userId, 0)
      [] op = "updateTransaction" ->
            MySQLDatabase_updateTransaction(d, TRUE, a.transactionId,
                                            a.transactionUpdate, 0)

\* the arguments that make different calls of op
TwinArgsOf(op) ==
    {a \in TwinArgs :
        /\ op # "updateWallet" => a.walletUpdate \in WalletUpdates
        /\ op # "updateTransaction" => a.transactionUpdate = <<>>
        /\ op \in {"createWallet", "getWalletsByUser", "getTransactionsByUser",
                   "updateTransaction"} => a.walletId = 1}

TwinCall ==
    \E op \in TwinOps :
      \E a \in TwinArgsOf(op) :
        LET mock == MockDatabase_call(op, db["client"], a)
            real == MySQLDatabase_call(op, db["mysql"], a)
        IN  /\ op = "createWallet" => db["client"].walletIdCounter <= MaxWallets
            /\ op = "recordTransaction"
                  => db["client"].transactionIdCounter <= MaxTransactions
            /\ db' = [db EXCEPT !["client"] = mock.db, !["mysql"] = real.db]
            /\ last' = Spread(Call(op, "client", a.walletId, mock),
                              [real |-> [ok |-> real.ok, error |-> real.error,
                                         bool |-> real.bool, recs |-> real.recs]])
            /\ UNCHANGED <<useMock, connected, orders, drawn, vault, running, exchange>>

NextTwin == TwinCall

SpecTwin == Init /\ [][NextTwin]_vars

(***************************************************************************)
(* SpecReconcile: the swap service creates swaps for stored wallets and    *)
(* runs reconciliation passes, the exchange answering each status request  *)
(* with any of its statuses, with a status the service does not know, or   *)
(* not at all.                                                             *)
(***************************************************************************)
\* response.data.status: the seven statuses of SwapStatus, one outside of
\* them, or a failed request
FineAnswers == SwapStatuses \cup {"verifying", "error"}

ReconcilePending ==
    \E responses \in [OpenOrders -> FineAnswers],
       failId \in IF useMock THEN {0} ELSE {0} \cup OpenOrders :
        LET r == SwapService_updatePendingSwaps(
                    useMock, db[Data("swapService")], connected["swapService"],
                    orders, responses, failId)
        IN  /\ db' = [db EXCEPT ![Data("swapService")] = r.db]
            /\ last' = [SvcCall("updatePendingSwaps", "swapService", 0, r)
                            EXCEPT !.responses = [id \in Ids(r.asked) |-> responses[id]],
                                   !.fault = failId]
            /\ UNCHANGED <<useMock, connected, orders, drawn, vault, running, exchange>>

NextReconcile ==
    \/ WalletInit
    \/ SwapInit
    \/ GenerateWalletFor
    \/ PlaceSwap
    \/ ReconcilePending

SpecReconcile == Init /\ [][NextReconcile]_vars

(***************************************************************************)
(* SpecOverlap: two callers run updatePendingSwaps on one swap service at  *)
(* the same time.  A call gives way to the other at each await: after the  *)
(* query for the pending records, after each status request and after each *)
(* updateTransaction.  running[p].pendingSwaps holds the records caller p  *)
(* still has to go through, running[p].written the ids of the records for  *)
(* which its updateTransaction returned true.                              *)
(***************************************************************************)
\* what the exchange answers to a status request of a pass
PassAnswers == {"waiting", "finished", "failed", "error"}

\* const pendingSwaps = await this.db.getTransactionsByStatus('pending')
PassBegin(p) ==
    /\ running[p].pc = "idle"
    /\ LET pending == getTransactionsByStatus(db[Data("swapService")],
                                              connected["swapService"], "pending")
           swaps == Filter(pending.recs, LAMBDA tx : tx.transactionType = "swap")
       IN  running' = [running EXCEPT ![p] =
                IF ~pending.ok
                THEN [Idle EXCEPT !.op = "updatePendingSwaps", !.pc = "thrown",
                                  !.error = <<"Failed to update pending swaps">>
                                                \o pending.error]
                ELSE [Idle EXCEPT !.op = "updatePendingSwaps", !.pc = "loop",
                                  !.pendingSwaps = swaps]]
    /\ UNCHANGED <<useMock, connected, db, orders, drawn, vault, last, exchange>>

\* the loop without the try/catch around its body: a status request that
\* fails ends the pass
Asked_EndsPass(call, response) ==
    LET swapStatus == ChangeNowAPI_getTransactionStatus(response)
        newStatus == NewStatus(swapStatus.status)
    IN  IF ~swapStatus.ok THEN [call EXCEPT !.pendingSwaps = <<>>]
        ELSE IF newStatus = "pending"
        THEN [call EXCEPT !.pendingSwaps = Tail(@)]
        ELSE [call EXCEPT !.pc = "write", !.newStatus = newStatus]

\* const swapStatus = await this.api.getTransactionStatus(swap.hash), and
\* the mapping of its status: the call after the exchange answered response
Asked(call, response) ==
    LET swapStatus == ChangeNowAPI_getTransactionStatus(response)
        newStatus == NewStatus(swapStatus.status)
    IN  IF ~swapStatus.ok \/ newStatus = "pending"
        THEN [call EXCEPT !.pendingSwaps = Tail(@)]
        ELSE [call EXCEPT !.pc = "write", !.newStatus = newStatus]

PassAsk(p) ==
    \E response \in PassAnswers :
        /\ running[p].op = "updatePendingSwaps"
        /\ running[p].pc = "loop"
        /\ running[p].pendingSwaps # <<>>
        /\ running' = [running EXCEPT ![p] = Asked(@, response)]
        /\ UNCHANGED <<useMock, connected, db, orders, drawn, vault, last, exchange>>

\* const updated = await this.db.updateTransaction(swap.id, { status:
\* newStatus }); if (updated) updatedCount++.  An UPDATE the server
\* rejected is the last call that failed (console.error)
PassWriteWith(p, fail) ==
    /\ running[p].op = "updatePendingSwaps"
    /\ running[p].pc = "write"
    /\ LET swap == Head(running[p].pendingSwaps)
           updated == db_updateTransaction(
                        useMock, db[Data("swapService")],
                        connected["swapService"], swap.id,
                        [status |-> running[p].newStatus], fail)
           counted == updated.ok /\ updated.bool
       IN  /\ db' = [db EXCEPT ![Data("swapService")] = updated.db]
           /\ running' = [running EXCEPT ![p] =
                [@ EXCEPT !.pc = "loop", !.newStatus = "",
                          !.pendingSwaps = Tail(@),
                          !.updatedCount = IF counted THEN @ + 1 ELSE @,
                          !.written = IF counted THEN Append(@, swap.id) ELSE @]]
           /\ last' = IF updated.ok THEN last
                      ELSE Call("updateTransaction", "swapService", swap.id, updated)
    /\ UNCHANGED <<useMock, connected, orders, drawn, vault, exchange>>

PassWrite(p) == \E fail \in Fails(1) : PassWriteWith(p, fail)

\* return updatedCount
PassReturn(p) ==
    /\ running[p].op = "updatePendingSwaps"
    /\ running[p].pc = "loop"
    /\ running[p].pendingSwaps = <<>>
    /\ running' = [running EXCEPT ![p].pc = "returned"]
    /\ UNCHANGED <<useMock, connected, db, orders, drawn, vault, last, exchange>>

NextOverlap ==
    \/ WalletInit
    \/ SwapInit
    \/ GenerateWalletFor
    \/ PlaceSwap
    \/ \E p \in Procs : PassBegin(p)
    \/ \E p \in Procs : PassAsk(p)
    \/ \E p \in Procs : PassWrite(p)
    \/ \E p \in Procs : PassReturn(p)

SpecOverlap == Init /\ [][NextOverlap]_vars

(***************************************************************************)
(* SpecRace: two callers run createSwap on one swap service at the same    *)
(* time.  A call gives way to the other at each of its four awaits: the    *)
(* wallet query, the order, the rate request and the write of the record.  *)
(* running[p].fault is 1 once the exchange or the database server failed   *)
(* a request of the call of caller p.                                      *)
(***************************************************************************)
\* catch (error): throw new Error(`Failed to create swap: ${error.message}`)
SwapThrown(call, error, fault) ==
    [call EXCEPT !.pc = "thrown", !.error = <<"Failed to create swap">> \o error,
                 !.fault = fault]

\* const wallet = await this.db.getWalletById(walletId)
SwapLookup(p) ==
    \E walletId \in WalletIds, fail \in Fails(1) :
        /\ running[p].pc = "idle"
        /\ LET found == db_getWalletById(useMock, db[Data("swapService")],
                                         connected["swapService"], walletId, fail)
               call == [Idle EXCEPT !.op = "createSwap", !.walletId = walletId]
           IN  running' = [running EXCEPT ![p] =
                    IF ~found.ok THEN SwapThrown(call, found.error, fail)
                    ELSE IF found.recs = <<>>
                    THEN SwapThrown(call, <<"Wallet with ID not found">>, 0)
                    ELSE [call EXCEPT !.pc = "order", !.wallet = found.recs]]
        /\ UNCHANGED <<useMock, connected, db, orders, drawn, vault, last, exchange>>

\* const swap = await this.api.createTransaction(...)
SwapOrder(p) ==
    \E response \in {"ok", "error"} :
        /\ running[p].op = "createSwap"
        /\ running[p].pc = "order"
        /\ orders < MaxTransactions
        /\ LET swap == ChangeNowAPI_createTransaction(response, orders)
           IN  /\ orders' = IF swap.ok THEN orders + 1 ELSE orders
               /\ running' = [running EXCEPT ![p] =
                    IF ~swap.ok THEN SwapThrown(@, swap.error, 1)
                    ELSE [@ EXCEPT !.pc = "quote", !.swap = swap.id]]
        /\ UNCHANGED <<useMock, connected, db, drawn, vault, last, exchange>>

\* const rateData = await this.api.getExchangeRate(...)
SwapQuote(p) ==
    \E response \in {"0.005", "error"} :
        /\ running[p].op = "createSwap"
        /\ running[p].pc = "quote"
        /\ LET rateData == ChangeNowAPI_getExchangeRate(response)
           IN  running' = [running EXCEPT ![p] =
                    IF ~rateData.ok THEN SwapThrown(@, rateData.error, 1)
                    ELSE [@ EXCEPT !.pc = "record", !.fee = rateData.fee]]
        /\ UNCHANGED <<useMock, connected, db, orders, drawn, vault, last, exchange>>

\* const transaction = await this.db.recordTransaction({...}); return
\* transaction
SwapRecord(p) ==
    \E fail \in Fails(2) :
        /\ running[p].op = "createSwap"
        /\ running[p].pc = "record"
        /\ db[Data("swapService")].transactionIdCounter <= MaxTransactions
        /\ LET recorded ==
                db_recordTransaction(useMock, db[Data("swapService")],
                    connected["swapService"],
                    [walletId |-> running[p].walletId,
                     transactionType |-> "swap",
                     fromAddress |-> running[p].wallet[1].address,
                     toAddress |-> SwapRequest.toAddress,
                     amount |-> SwapRequest.fromAmount,
                     currency |-> SwapRequest.fromCurrency,
                     fee |-> running[p].fee,
                     status |-> "pending",
                     hash |-> running[p].swap,
                     chainId |-> SwapRequest.fromChainId,
                     fromChainId |-> SwapRequest.fromChainId,
                     toChainId |-> SwapRequest.toChainId],
                    fail)
           IN  /\ db' = [db EXCEPT ![Data("swapService")] = recorded.db]
               /\ running' = [running EXCEPT ![p] =
                    IF ~recorded.ok THEN SwapThrown(@, recorded.error, 1)
                    ELSE [@ EXCEPT !.pc = "returned", !.recs = recorded.recs]]
        /\ UNCHANGED <<useMock, connected, orders, drawn, vault, last, exchange>>

NextRace ==
    \/ WalletInit
    \/ SwapInit
    \/ GenerateWalletFor
    \/ \E p \in Procs : SwapLookup(p)
    \/ \E p \in Procs : SwapOrder(p)
    \/ \E p \in Procs : SwapQuote(p)
    \/ \E p \in Procs : SwapRecord(p)

SpecRace == Init /\ [][NextRace]_vars

(***************************************************************************)
(* SpecRetry: one caller runs updatePendingSwaps again and again while the *)
(* orders make their way at the exchange.  An order settles once           *)
(* (finished, failed or refunded) and the exchange may stop and resume     *)
(* answering for an order at any time, also in the middle of a pass.       *)
(* Fairness: a call that stands at an await goes on, a call that returned  *)
(* is followed by another, and the database server does not reject the     *)
(* UPDATE forever.                                                         *)
(***************************************************************************)
\* the number of the order with that id
OrderOf(hash) == CHOOSE n \in 1..MaxTransactions : OrderId(n) = hash

\* response.data.status of the status request for the order with that id
\* at this moment, or the failure of the request
StatusAnswer(hash) ==
    IF OrderOf(hash) \in exchange.down THEN "error"
    ELSE exchange.status[OrderOf(hash)]

\* the hash of the transaction with that id in the store of the swap service
HashOf(id) ==
    LET d == db[Data("swapService")]
    IN  d.transactions[FindIndex(d.transactions, id)].hash

\* the wallet service stores the one wallet the swaps are made from
StoreWallet ==
    /\ db[Data("walletService")].wallets = <<>>
    /\ GenerateEthereumWallet

\* createSwap for that wallet, the exchange and the database server
\* accepting every request
OrderSwap ==
    \E walletId \in {1} :
        /\ orders < MaxTransactions
        /\ db[Data("swapService")].transactionIdCounter <= MaxTransactions
        /\ ApplyFaulty("createSwap", "swapService", walletId,
                SwapService_createSwap(useMock, db[Data("swapService")],
                                       connected["swapService"], orders,
                                       walletId, SwapRequest,
                                       [create |-> "ok", rate |-> "0.005"], 0),
                0)

\* an order that is in progress reaches one of its final statuses
ExchangeSettle ==
    \E n \in 1..orders, status \in {"finished", "failed", "refunded"} :
        /\ exchange.status[n] = "waiting"
        /\ exchange' = [exchange EXCEPT !.status[n] = status]
        /\ UNCHANGED <<useMock, connected, db, orders, drawn, vault, last, running>>

\* the exchange stops, or resumes, answering status requests for an order
ExchangeOutage ==
    \E n \in 1..orders :
        /\ exchange' = [exchange EXCEPT
                            !.down = IF n \in @ THEN @ \ {n} ELSE @ \cup {n}]
        /\ UNCHANGED <<useMock, connected, db, orders, drawn, vault, last, running>>

\* the caller of the passes
Caller == 1

RetryBegin == PassBegin(Caller)

\* the status request of the pass, answered by the exchange as it is now;
\* a request that failed is the last call that failed (console.error)
RetryAsk ==
    /\ running[Caller].op = "updatePendingSwaps"
    /\ running[Caller].pc = "loop"
    /\ running[Caller].pendingSwaps # <<>>
    /\ LET swap == Head(running[Caller].pendingSwaps)
           response == StatusAnswer(swap.hash)
           swapStatus == ChangeNowAPI_getTransactionStatus(response)
       IN  /\ running' = [running EXCEPT ![Caller] = Asked(@, response)]
           /\ last' = IF swapStatus.ok THEN last
                      ELSE Call("getTransactionStatus", "swapService", swap.id,
                                Throws(db[Data("swapService")], swapStatus.error))
    /\ UNCHANGED <<useMock, connected, db, orders, drawn, vault, exchange>>

RetryWriteAccepted == PassWriteWith(Caller, 0)

RetryWriteRejected == ~useMock /\ PassWriteWith(Caller, 1)

RetryReturn == PassReturn(Caller)

\* the caller calls updatePendingSwaps once more
RetryAgain ==
    /\ running[Caller].op = "updatePendingSwaps"
    /\ running[Caller].pc \in {"returned", "thrown"}
    /\ running' = [running EXCEPT ![Caller] = Idle]
    /\ UNCHANGED <<useMock, connected, db, orders, drawn, vault, last, exchange>>

NextRetry ==
    \/ WalletInit
    \/ SwapInit
    \/ StoreWallet
    \/ OrderSwap
    \/ ExchangeSettle
    \/ ExchangeOutage
    \/ RetryBegin
    \/ RetryAsk
    \/ RetryWriteAccepted
    \/ RetryWriteRejected
    \/ RetryReturn
    \/ RetryAgain

SpecRetry ==
    /\ Init
    /\ [][NextRetry]_vars
    /\ WF_vars(RetryBegin)
    /\ WF_vars(RetryAsk)
    /\ SF_vars(RetryWriteAccepted)
    /\ WF_vars(RetryReturn)
    /\ WF_vars(RetryAgain)

(***************************************************************************)
(* SpecVault: a caller generates an encrypted wallet of one chain under a  *)
(* password and decrypts it under the same or another password.            *)
(*   vault.wallet    what generateEncryptedWallet returned                 *)
(*   vault.secret    the private key the chain SDK created for it          *)
(*   vault.password  the password it was generated under                   *)
(*   vault.tried     the password of the last decryptWallet call           *)
(*   vault.result    what that call returned or threw                      *)
(***************************************************************************)
Passwords == {"pw1", "pw2"}
Seeds == 1..MaxSeed
Entropy == [key : Seeds, salt : Seeds, iv : Seeds]

Generated(chain, wallet, secret, password) ==
    [chain |-> chain, wallet |-> wallet, secret |-> secret, password |-> password,
     tried |-> "", result |-> DecryptThrows("")]

VaultGenerateEthereum ==
    \E password \in Passwords, rnd \in Entropy :
        /\ vault' = Generated("ethereum",
                        EthereumWalletGenerator_generateEncryptedWallet(password, rnd),
                        EthPrivateKey(rnd.key), password)
        /\ UNCHANGED <<useMock, connected, db, orders, drawn, last, running, exchange>>

VaultGenerateBitcoin ==
    \E password \in Passwords, rnd \in Entropy, network \in {"mainnet", "testnet"} :
        /\ vault' = Generated("bitcoin",
                        BitcoinWalletGenerator_generateEncryptedWallet(password, network, rnd),
                        BtcWIF(rnd.key, network), password)
        /\ UNCHANGED <<useMock, connected, db, orders, drawn, last, running, exchange>>

VaultGenerateSolana ==
    \E password \in Passwords, rnd \in Entropy :
        /\ vault' = Generated("solana",
                        SolanaWalletGenerator_generateEncryptedWallet(password, rnd),
                        SolSecretBs58(rnd.key), password)
        /\ UNCHANGED <<useMock, connected, db, orders, drawn, last, running, exchange>>

VaultGenerateTron ==
    \E password \in Passwords, rnd \in Entropy :
        LET tronWallet == TronWalletGenerator_generateEncryptedWallet(password, rnd)
        IN  /\ tronWallet.ok
            /\ vault' = Generated("tron", tronWallet, TronPrivateKey(rnd.key), password)
            /\ UNCHANGED <<useMock, connected, db, orders, drawn, last, running, exchange>>

\* decryptWallet of the generator of the wallet's chain
decryptWallet(chain, encryptedWallet, password, tailPadOk) ==
    CASE chain = "ethereum" ->
            EthereumWalletGenerator_decryptWallet(encryptedWallet, password, tailPadOk)
      [] chain = "bitcoin" ->
            BitcoinWalletGenerator_decryptWallet(encryptedWallet, password, tailPadOk)
      [] chain = "solana" ->
            SolanaWalletGenerator_decryptWallet(encryptedWallet, password, tailPadOk)
      [] chain = "tron" ->
            TronWalletGenerator_decryptWallet(encryptedWallet, password, tailPadOk)

VaultDecrypt ==
    \E password \in Passwords, tailPadOk \in BOOLEAN :
        /\ vault.chain # "none"
        /\ vault' = [vault EXCEPT
                        !.tried = password,
                        !.result = decryptWallet(vault.chain, vault.wallet,
                                                 password, tailPadOk)]
        /\ UNCHANGED <<useMock, connected, db, orders, drawn, last, running, exchange>>

NextVault ==
    \/ VaultGenerateEthereum
    \/ VaultGenerateBitcoin
    \/ VaultGenerateSolana
    \/ VaultGenerateTron
    \/ VaultDecrypt

SpecVault == Init /\ [][NextVault]_vars

(***************************************************************************)
(* SpecAddresses: a caller validates address strings; last.recs holds the  *)
(* address and last.bool the answer.                                       *)
(* SpecTron: a caller generates Tron wallets from the account the SDK      *)
(* returns, replaces the address of a generated wallet and decrypts it.    *)
(* last.op is the call made last; for generateEncryptedWallet last.recs    *)
(* holds the SDK's address.                                                *)
(***************************************************************************)
ValidAddress ==
    <<"T","R","j","E","1","H","8","d","x","y","p","K","M","1","N","Z","R",
      "d","y","s","b","s","9","w","o","7","h","u","R","4","b","d","N","z">>
InvalidAddress == <<"A","B","1","2","3">>
InvalidTronAddress ==
    <<"I","n","v","a","l","i","d","T","r","o","n","A","d","d","r","e","s","s">>

\* s with its character at pos replaced by ch
WithChar(s, pos, ch) == [i \in 1..Len(s) |-> IF i = pos THEN ch ELSE s[i]]

Positions == {1, 2, 3, 20, 33, TronAddrLen}
Replacements == {"T", "A", "t", "z", "1", "0", "O", "I", "l", " ", "-"}

AddressSamples ==
    {ValidAddress, InvalidAddress, InvalidTronAddress, <<>>, <<"T">>,
     SubSeq(ValidAddress, 1, TronAddrLen - 1), ValidAddress \o <<"z">>,
     SubSeq(ValidAddress, 2, TronAddrLen), <<"T">> \o ValidAddress}
        \cup {WithChar(ValidAddress, pos, ch) : pos \in Positions, ch \in Replacements}

\* a call of the caller's that touches no store
Called(op, bool, recs) == Call(op, "client", 0, Ret(db["client"], bool, recs))

ValidateTronAddress ==
    \E address \in AddressSamples :
        /\ last' = Called("validateTronAddress", validateTronAddress(address),
                          <<[address |-> address]>>)
        /\ UNCHANGED <<useMock, connected, db, orders, drawn, vault, running, exchange>>

NextAddresses == ValidateTronAddress

SpecAddresses == Init /\ [][NextAddresses]_vars

\* the addresses generateAccount may hand back: the SDK's own, or something
\* a broken SDK build returns
AccountAddresses(k) ==
    {TronAddress(k), SubSeq(TronAddress(k), 1, TronAddrLen - 1),
     WithChar(TronAddress(k), 2, "0")}

TronGenerate ==
    \E password \in Passwords, rnd \in Entropy :
        \E address \in AccountAddresses(rnd.key) :
            /\ vault' = Generated("tron",
                            TronWalletGenerator_encryptAccount(
                                TronPrivateKey(rnd.key), address, password, rnd),
                            TronPrivateKey(rnd.key), password)
            /\ last' = Called("generateEncryptedWallet", FALSE,
                              <<[address |-> address]>>)
            /\ UNCHANGED <<useMock, connected, db, orders, drawn, running, exchange>>

\* { ...encryptedWallet, address: other }
TronReplaceAddress ==
    \E address \in {InvalidTronAddress, InvalidAddress, ValidAddress} :
        /\ vault.chain = "tron"
        /\ vault.wallet.ok
        /\ vault' = [vault EXCEPT !.wallet.address = address,
                                  !.tried = "",
                                  !.result = DecryptThrows("")]
        /\ last' = Called("replaceAddress", FALSE, <<[address |-> address]>>)
        /\ UNCHANGED <<useMock, connected, db, orders, drawn, running, exchange>>

TronDecrypt ==
    \E password \in Passwords, tailPadOk \in BOOLEAN :
        /\ vault.chain = "tron"
        /\ vault.wallet.ok
        /\ vault' = [vault EXCEPT
                        !.tried = password,
                        !.result = TronWalletGenerator_decryptWallet(
                                        vault.wallet, password, tailPadOk)]
        /\ last' = Called("decryptWallet", FALSE, <<>>)
        /\ UNCHANGED <<useMock, connected, db, orders, drawn, running, exchange>>

NextTron ==
    \/ TronGenerate
    \/ TronReplaceAddress
    \/ TronDecrypt

SpecTron == Init /\ [][NextTron]_vars

(***************************************************************************)
(* Properties of the generators (SpecVault).                               *)
(***************************************************************************)
\* the address the chain SDK derives from a private key
AddressOf(privateKey) ==
    CASE privateKey.kind = "0xhex" -> EthAddress(privateKey.key)
      [] privateKey.kind = "wif" -> BtcAddress(privateKey.key, privateKey.network)
      [] privateKey.kind = "bs58" -> SolAddress(privateKey.key)
      [] privateKey.kind = "hex" -> TronAddress(privateKey.key)
      [] OTHER -> <<>>

\* C7: for each of the four chains and every password, decryptWallet of a
\* wallet that generateEncryptedWallet(password) produced, called with the
\* same password, returns, and returns the private key that was encrypted;
\* that key derives the address of the wallet.
C7_DecryptRecoversKey ==
    (vault.chain # "none" /\ vault.tried = vault.password)
        => /\ vault.result.ok
           /\ vault.result.privateKey = vault.secret
           /\ vault.result.address = vault.wallet.address
           /\ AddressOf(vault.result.privateKey) = vault.wallet.address

\* C7: a testnet Bitcoin wallet was decrypted under its own password
C7_BitcoinRecovered ==
    /\ vault.chain = "bitcoin" /\ vault.wallet.network = "testnet"
    /\ vault.tried = vault.password
    /\ vault.result.ok /\ vault.result.privateKey = vault.secret

\* C8: decryptWallet called with a password other than the one the wallet
\* was encrypted under throws; it never returns a key.
C8_WrongPasswordFails ==
    (vault.chain # "none" /\ vault.tried # "" /\ vault.tried # vault.password)
        => ~vault.result.ok

\* C8, the state that contradicts it: the Tron generator returned a key, and
\* not the wallet's, for a wrong password
C8_TronReturnsOtherKey ==
    /\ vault.chain = "tron"
    /\ vault.tried # "" /\ vault.tried # vault.password
    /\ vault.result.ok /\ vault.result.privateKey # vault.secret

(***************************************************************************)
(* Properties of the store (SpecStore).                                    *)
(***************************************************************************)
\* the data operations both store classes define
DataOps ==
    {"createWallet", "getWallet", "getWalletById", "getWalletsByUser",
     "getWalletsByChainId", "updateWallet", "deleteWallet",
     "recordTransaction", "getTransactionsByWallet", "getTransactionsByUser",
     "getTransactionsByHash", "updateTransaction"}

\* the transactions stored for a wallet id, whatever the connection state
StoredFor(h, walletId) ==
    Filter(db[Data(h)].transactions, LAMBDA t : t.walletId = walletId)

\* C3: deleteWallet(id) on an existing wallet (it returned true) removes the
\* wallet and every transaction whose walletId is id: getTransactionsByWallet(id)
\* called right afterwards returns an empty collection, with either store.
C3_DeleteWalletRemovesTransactions ==
    (last.op = "deleteWallet" /\ last.ok /\ last.bool)
        => /\ db_getWalletById(useMock, db[Data(last.h)], TRUE, last.id, 0).recs = <<>>
           /\ db_getTransactionsByWallet(useMock, db[Data(last.h)], TRUE,
                                         last.id, 0).recs = <<>>

\* C3, the state that contradicts it: the mock store reported the wallet
\* deleted and still holds a transaction of that wallet
C3_MockKeepsTransactions ==
    /\ useMock
    /\ last.op = "deleteWallet" /\ last.ok /\ last.bool
    /\ StoredFor(last.h, last.id) # <<>>

\* C10: a data operation called on a store instance that is not connected
\* (never connected, connection refused, or disconnected) throws the
\* not-connected error and leaves every wallet and transaction as it was.
C10_NotConnectedFails ==
    [][ (last'.op \in DataOps /\ ~connected[last'.h])
            => /\ ~last'.ok
               /\ last'.error = NotConnected
               /\ db' = db ]_vars

\* C10: records exist, the client has disconnected, and a delete was refused
C10_RefusedAfterDisconnect ==
    /\ last.op = "deleteWallet" /\ ~last.wasConnected
    /\ ~last.ok /\ last.error = NotConnected
    /\ db[Data(last.h)].wallets # <<>>
    /\ db[Data(last.h)].transactions # <<>>

(***************************************************************************)
(* Properties of the services (Spec).                                      *)
(***************************************************************************)
\* the store of the swap service holds a wallet with this id
SwapStoreHoldsWallet(walletId) ==
    \E i \in 1..Len(db[Data("swapService")].wallets) :
        db[Data("swapService")].wallets[i].id = walletId

WalletNotFound == <<"Failed to create swap", "Wallet with ID not found">>

\* C1: the status of a stored transaction only moves from pending to
\* completed or from pending to failed: no call of createSwap,
\* updatePendingSwaps, updateSwapStatus or updateTransactionStatus takes a
\* record from completed or failed to any other status.
C1_StatusOnlyLeavesPending ==
    [][ \A b \in Databases :
          \A i \in 1..Len(db[b].transactions), j \in 1..Len(db'[b].transactions) :
            db'[b].transactions[j].id = db[b].transactions[i].id
                => \/ db'[b].transactions[j].status = db[b].transactions[i].status
                   \/ /\ db[b].transactions[i].status = "pending"
                      /\ db'[b].transactions[j].status \in {"completed", "failed"}
      ]_vars

\* C5: createSwap with a walletId the store does not hold throws, sends no
\* request to the exchange (no order, no quote), leaves the exchange's orders
\* and every stored record as they were; when the store answered the lookup,
\* the error is the wallet-not-found error.
C5_UnknownWalletRejected ==
    [][ (last'.op = "createSwap" /\ ~SwapStoreHoldsWallet(last'.id))
            => /\ ~last'.ok
               /\ last'.calls = <<>>
               /\ orders' = orders
               /\ db' = db
               /\ (connected["swapService"] /\ last'.fault # 1)
                      => last'.error = WalletNotFound
      ]_vars

\* C5: the database holds wallet 1, and createSwap for wallet 2 was refused
C5_SecondWalletUnknown ==
    /\ last.op = "createSwap" /\ last.id = 2 /\ last.wasConnected
    /\ SwapStoreHoldsWallet(1) /\ ~SwapStoreHoldsWallet(2)
    /\ last.error = WalletNotFound
    /\ orders = 0

\* C6: a createSwap that returns adds exactly one transaction to the store:
\* type swap, status pending, the given walletId, fromAddress the address of
\* that wallet, hash the id the exchange returned for the order, the given
\* amount and the given source and destination chain ids; it returns that
\* record and changes no wallet and no other transaction.
C6_SwapRecorded ==
    [][ (last'.op = "createSwap" /\ last'.ok)
            => LET before == db[Data("swapService")]
                   after == db'[Data("swapService")]
                   new == after.transactions[Len(after.transactions)]
               IN  /\ Len(after.transactions) = Len(before.transactions) + 1
                   /\ SubSeq(after.transactions, 1, Len(before.transactions))
                        = before.transactions
                   /\ after.wallets = before.wallets
                   /\ \A b \in Databases \ {Data("swapService")} : db'[b] = db[b]
                   /\ \A i \in 1..Len(before.transactions) :
                        before.transactions[i].id # new.id
                   /\ new.transactionType = "swap"
                   /\ new.status = "pending"
                   /\ new.walletId = last'.id
                   /\ \E i \in 1..Len(before.wallets) :
                        /\ before.wallets[i].id = last'.id
                        /\ new.fromAddress = before.wallets[i].address
                   /\ new.hash = ChangeNowAPI_createTransaction("ok", orders).id
                   /\ orders' = orders + 1
                   /\ new.amount = SwapRequest.fromAmount
                   /\ new.fromChainId = SwapRequest.fromChainId
                   /\ new.toChainId = SwapRequest.toChainId
                   /\ last'.recs = <<new>>
      ]_vars

\* C6: a second transaction was stored by createSwap, next to an older one
C6_SecondRecordIsSwap ==
    /\ last.op = "createSwap" /\ last.ok
    /\ Len(db[Data("swapService")].transactions) = 2
    /\ last.recs = <<db[Data("swapService")].transactions[2]>>
    /\ last.recs[1].status = "pending"
    /\ last.recs[1].hash = OrderId(orders)

\* the status of transaction id in the store of the swap service: d
StatusIn(d, id) == d.transactions[FindIndex(d.transactions, id)].status

\* the number of times id occurs in seq
Times(seq, id) == Cardinality({i \in 1..Len(seq) : seq[i] = id})

\* C2: a pass of updatePendingSwaps asks the exchange about the swaps that
\* are pending when it starts, each once, and about no other record; a swap
\* the exchange reports finished is completed afterwards, by exactly one
\* updateTransaction call, and is counted in the number returned; the number
\* returned is the number of records whose status the pass changed; a record
\* it did not write is unchanged; with no pending swap (a second pass right
\* after the first completed the order) it asks nothing, writes nothing and
\* returns 0.
C2_ReconcileCompletesOnce ==
    [][ (last'.op = "updatePendingSwaps" /\ last'.ok)
            => LET before == db[Data("swapService")]
                   after == db'[Data("swapService")]
                   ids == {before.transactions[i].id : i \in 1..Len(before.transactions)}
                   changed == {id \in ids : StatusIn(after, id) # StatusIn(before, id)}
               IN  /\ DOMAIN last'.responses = OpenOrders
                   /\ \A id \in ids :
                        Times(last'.asked, id) = IF id \in OpenOrders THEN 1 ELSE 0
                   /\ \A id \in OpenOrders :
                        (last'.responses[id] = "finished" /\ last'.fault # id)
                            => /\ StatusIn(after, id) = "completed"
                               /\ Times(last'.written, id) = 1
                               /\ id \in changed
                   /\ last'.count = Cardinality(changed)
                   /\ \A id \in ids : Times(last'.written, id) = 0
                        => after.transactions[FindIndex(after.transactions, id)]
                            = before.transactions[FindIndex(before.transactions, id)]
                   /\ Len(after.transactions) = Len(before.transactions)
                   /\ after.wallets = before.wallets
                   /\ OpenOrders = {}
                        => /\ last'.count = 0
                           /\ last'.asked = <<>>
                           /\ last'.written = <<>>
                           /\ db' = db
      ]_vars

\* C2: the order of the first swap was reported finished, the pass completed
\* the record with one write and returned 1
C2_FirstSwapCompleted ==
    /\ last.op = "updatePendingSwaps" /\ last.ok
    /\ last.asked = <<1>> /\ last.responses[1] = "finished"
    /\ last.written = <<1>> /\ last.count = 1
    /\ db[Data("swapService")].transactions[1].transactionType = "swap"
    /\ db[Data("swapService")].transactions[1].hash = OrderId(1)
    /\ db[Data("swapService")].transactions[1].status = "completed"

\* C4: when the status request fails for a pending swap, the pass still
\* returns: it has asked about every swap that was pending, the swap whose
\* request failed is still pending, a swap reported finished is completed and
\* one reported failed or refunded is failed.
C4_FailedLookupIsSkipped ==
    [][ (/\ last'.op = "updatePendingSwaps"
         /\ \E id \in DOMAIN last'.responses : last'.responses[id] = "error")
            => LET after == db'[Data("swapService")]
               IN  /\ last'.ok
                   /\ DOMAIN last'.responses = OpenOrders
                   /\ \A id \in OpenOrders \cap DOMAIN last'.responses :
                        /\ last'.responses[id] = "error"
                                => StatusIn(after, id) = "pending"
                        /\ (last'.responses[id] = "finished" /\ last'.fault # id)
                                => StatusIn(after, id) = "completed"
                        /\ (last'.responses[id] \in {"failed", "refunded"}
                                /\ last'.fault # id)
                                => StatusIn(after, id) = "failed"
      ]_vars

\* C4: the request for the first pending swap failed, the second was
\* reported finished and is completed, the first is still pending
C4_SecondUpdatedAfterFailure ==
    /\ last.op = "updatePendingSwaps" /\ last.ok
    /\ last.asked = <<1, 2>>
    /\ last.responses[1] = "error" /\ last.responses[2] = "finished"
    /\ db[Data("swapService")].transactions[1].status = "pending"
    /\ db[Data("swapService")].transactions[2].status = "completed"
    /\ last.count = 1

(***************************************************************************)
(* Properties of the wallet service (SpecWallets).                         *)
(***************************************************************************)
WalletFields ==
    {"id", "userId", "walletType", "address", "encryptedPrivateKey", "salt",
     "iv", "network", "chainId"}

\* the names under which a generator or an SDK holds a key or the password
SecretFields == {"privateKey", "privateKeyWIF", "secretKey", "password", "key"}

GenerationOps ==
    {"generateEthereumWallet", "generateBitcoinWallet", "generateSolanaWallet",
     "generateTronWallet", "generateAndStoreWallets"}

\* x carries its key only as a ciphertext, made under a key derived with the
\* salt of x and under the iv of x
Sealed(x) ==
    /\ DOMAIN x \cap SecretFields = {}
    /\ DOMAIN x.encryptedPrivateKey = {"alg", "key", "iv", "text"}
    /\ x.encryptedPrivateKey.alg = "aes-256-cbc"
    /\ x.encryptedPrivateKey.key.salt = x.salt
    /\ x.encryptedPrivateKey.iv = fromHex(x.iv)

\* C9: no stored wallet or transaction and no value a generation call of the
\* wallet service returns holds a private key or the password in the clear:
\* a wallet has the fields of WalletRecord and no other, its key is there
\* only as encryptedPrivateKey, a ciphertext, next to the salt and iv it was
\* made with; no text field of a record is the password.
C9_NoPlaintextKept ==
    /\ \A b \in Databases : \A i \in 1..Len(db[b].wallets) :
            /\ DOMAIN db[b].wallets[i] = WalletFields
            /\ Sealed(db[b].wallets[i])
            /\ {db[b].wallets[i].userId, db[b].wallets[i].walletType,
                db[b].wallets[i].network} \cap Passwords = {}
    /\ \A b \in Databases : \A i \in 1..Len(db[b].transactions) :
            /\ DOMAIN db[b].transactions[i]
                    \cap (SecretFields \cup {"encryptedPrivateKey"}) = {}
            /\ {db[b].transactions[i].amount, db[b].transactions[i].currency,
                db[b].transactions[i].fee, db[b].transactions[i].status,
                db[b].transactions[i].transactionType} \cap Passwords = {}
    /\ (last.op \in GenerationOps /\ last.ok)
            => \A i \in 1..Len(last.recs) : Sealed(last.recs[i])

\* C9: generateAndStoreWallets returned the four wallets and stored them
C9_BatchStored ==
    /\ last.op = "generateAndStoreWallets" /\ last.ok
    /\ Len(last.recs) = 4
    /\ Len(db[Data("walletService")].wallets) >= 4
    /\ \A i \in 1..4 :
            db[Data("walletService")].wallets[i].encryptedPrivateKey
                = last.recs[i].encryptedPrivateKey

(***************************************************************************)
(* Properties of the chain ids (SpecChains).                               *)
(***************************************************************************)
\* the wallets the store of the wallet service holds
StoredWallets == db[Data("walletService")].wallets

\* C11: an Ethereum-compatible wallet generated and stored without a chain
\* id, by generateAndStoreWallets or by generateEthereumWallet, is stored
\* with chainId 1.
C11_DefaultChainIsMainnet ==
    (/\ last.op \in {"generateEthereumWallet", "generateAndStoreWallets"}
     /\ last.ok /\ last.id = Undefined)
        => \A i \in 1..Len(StoredWallets) :
              StoredWallets[i].address = last.recs[1].address
                  => StoredWallets[i].chainId = CHAIN_IDS_ETHEREUM_MAINNET

\* C11, the state that contradicts it: generateEthereumWallet without a
\* chain id stored a wallet whose chainId is not set
C11_SingleWalletHasNoChain ==
    /\ last.op = "generateEthereumWallet" /\ last.ok /\ last.id = Undefined
    /\ \E i \in 1..Len(StoredWallets) :
          /\ StoredWallets[i].address = last.recs[1].address
          /\ StoredWallets[i].chainId \in {Undefined, Null}

Ledger == db[Data("transactionService")].transactions

Unset == {Undefined, Null}

\* C13: every stored transaction of type send or receive has fromChainId
\* and toChainId unset, in every reachable state; a swap recorded with
\* fromChainId 1 and toChainId 137 stores both
C13_ChainPairOnlyOnSwaps ==
    \A i \in 1..Len(Ledger) :
        /\ Ledger[i].transactionType \in {"send", "receive"}
              => Ledger[i].fromChainId \in Unset /\ Ledger[i].toChainId \in Unset
        /\ (/\ last.op = "recordTransaction"
            /\ last.ok
            /\ last.recs[1].id = Ledger[i].id
            /\ Ledger[i].transactionType = "swap")
              => /\ Ledger[i].fromChainId = CHAIN_IDS_ETHEREUM_MAINNET
                 /\ Ledger[i].toChainId = CHAIN_IDS_POLYGON_MAINNET

\* a send was recorded with a source and a destination chain
C13_SendCarriesChainPair ==
    /\ last.op = "recordTransaction"
    /\ last.ok
    /\ \E i \in 1..Len(Ledger) :
          /\ Ledger[i].id = last.recs[1].id
          /\ Ledger[i].transactionType = "send"
          /\ Ledger[i].fromChainId = CHAIN_IDS_ETHEREUM_MAINNET
          /\ Ledger[i].toChainId = CHAIN_IDS_POLYGON_MAINNET

(***************************************************************************)
(* Properties of swap creation (SpecSwaps)                                 *)
(***************************************************************************)
RecordFailed == "Failed to record transaction"

\* the call about to return placed its order and then lost the write of
\* the record: the wallet was found, the exchange answered both requests
\* and the server rejected a statement of recordTransaction
OrderWithoutRecord ==
    /\ last'.op = "createSwap"
    /\ connected["swapService"]
    /\ SwapStoreHoldsWallet(last'.id)
    /\ last'.responses[1] # "error"
    /\ last'.responses[2] # "error"
    /\ last'.fault \in {2, 3}

StoredEthereumWallet(walletId) ==
    \E i \in 1..Len(StoredWallets) :
        /\ StoredWallets[i].id = walletId
        /\ StoredWallets[i].walletType = "ethereum"

ExchangeFailed == {"Failed to create transaction", "Failed to get exchange rate"}

\* C15: with both services initialised, createSwap for the id of an
\* Ethereum wallet the wallet service stored finds the wallet and, unless
\* the exchange or the server fails, returns a pending swap record of that
\* wallet; with the mock store as with the real one
C15_StoredWalletCanSwap ==
    (/\ last.op = "createSwap"
     /\ last.wasConnected
     /\ connected["walletService"]
     /\ last.fault = 0
     /\ StoredEthereumWallet(last.id))
        => \/ /\ last.ok
              /\ Len(last.recs) = 1
              /\ last.recs[1].walletId = last.id
              /\ last.recs[1].transactionType = "swap"
              /\ last.recs[1].status = "pending"
           \/ /\ ~last.ok
              /\ Len(last.error) >= 2
              /\ last.error[2] \in ExchangeFailed

\* with the mock store the swap service does not find a wallet the
\* wallet service holds
C15_MockSwapServiceSeesNoWallet ==
    /\ useMock
    /\ last.op = "createSwap"
    /\ last.wasConnected
    /\ connected["walletService"]
    /\ StoredEthereumWallet(last.id)
    /\ last.error = WalletNotFound

\* the stored transactions recorded against wallets the wallet service
\* holds for userId
TransactionsOf(userId) ==
    {Ledger[i] : i \in {j \in 1..Len(Ledger) :
        \E k \in 1..Len(StoredWallets) :
            /\ StoredWallets[k].id = Ledger[j].walletId
            /\ StoredWallets[k].userId = userId}}

Returned == {last.recs[i] : i \in 1..Len(last.recs)}

\* C16: getTransactionsByUser(owner) returns exactly the stored transactions
\* whose walletId is the id of a wallet of that owner, and so every
\* transaction recorded against a wallet the wallet service stored for them
C16_ByUserReturnsOwnersTransactions ==
    (last.op = "getTransactionsByUser" /\ last.ok)
        => /\ Returned = TransactionsOf(last.user)
           /\ Len(last.recs) = Cardinality(TransactionsOf(last.user))

\* with the mock store the list is empty although a transaction was
\* recorded against a wallet of the user
C16_MockListIsEmpty ==
    /\ useMock
    /\ last.op = "getTransactionsByUser"
    /\ last.ok
    /\ last.recs = <<>>
    /\ TransactionsOf(last.user) # {}

(***************************************************************************)
(* Properties of the Tron generator (SpecTron)                             *)
(***************************************************************************)
Digits == {"0", "1", "2", "3", "4", "5", "6", "7", "8", "9"}
Letters == {UpperChars[i] : i \in 1..26} \cup {LowerChars[i] : i \in 1..26}
\* Base58: the digits and letters without 0, O, I and l
Base58 == (Digits \cup Letters) \ {"0", "O", "I", "l"}

WellFormed(a) ==
    /\ Len(a) > 0
    /\ a[1] = "T"
    /\ Len(a) = 34
    /\ \A i \in 1..Len(a) : a[i] \in Base58

\* C18: validateTronAddress(a) is true exactly when a is non-empty, starts
\* with T, is 34 characters long and has Base58 characters only;
\* TRjE1H8dxypKM1NZRdysbs9wo7huR4bdNz is valid and AB123 is not
C18_ValidatorDecidesFormat ==
    last.op = "validateTronAddress"
        => LET a == last.recs[1].address
           IN  /\ last.bool <=> WellFormed(a)
               /\ a = ValidAddress => last.bool
               /\ a = InvalidAddress => ~last.bool

\* a 33-character Base58 string starting with T was refused
C18_ShortAddressRefused ==
    /\ last.op = "validateTronAddress"
    /\ last.recs[1].address = SubSeq(ValidAddress, 1, 33)
    /\ ~last.bool

\* C19: decryptWallet of a Tron record whose address fails the validator
\* throws for every password, the right one included, and returns no key;
\* generateEncryptedWallet returns no wallet whose address fails it
C19_InvalidAddressNeverDecrypts ==
    /\ (/\ vault.chain = "tron"
        /\ vault.wallet.ok
        /\ vault.tried # ""
        /\ ~validateTronAddress(vault.wallet.address))
          => /\ ~vault.result.ok
             /\ vault.result.error = "Invalid Tron address format"
             /\ vault.result.privateKey = Garbled
    /\ last.op = "generateEncryptedWallet"
          => IF validateTronAddress(last.recs[1].address)
             THEN vault.wallet.ok /\ vault.wallet.address = last.recs[1].address
             ELSE ~vault.wallet.ok /\ vault.wallet.error = "Generated address is invalid"

\* the right password was tried on a record with an invalid address
C19_RightPasswordOnBadRecord ==
    /\ vault.chain = "tron"
    /\ vault.wallet.ok
    /\ vault.wallet.address = InvalidTronAddress
    /\ vault.tried = vault.password
    /\ ~vault.result.ok

(***************************************************************************)
(* Properties of the rate request (SpecLedger)                             *)
(***************************************************************************)
\* C20: getExchangeRate leaves every store as it was, whether the exchange
\* answers or fails: the wallets and transactions are the same before and
\* after the call
C20_QuoteLeavesStoreUnchanged ==
    [][last'.op = "getExchangeRate"
        => /\ db' = db
           /\ orders' = orders
           /\ last'.calls = <<"getExchangeRate">>]_vars

\* a rate request failed at the exchange while the ledger held a record
C20_QuoteFailedOverLedger ==
    /\ last.op = "getExchangeRate"
    /\ ~last.ok
    /\ last.error = <<"Failed to get exchange rate", NetworkError>>
    /\ Ledger # <<>>

(***************************************************************************)
(* Properties of the stored secrets (SpecWallets)                          *)
(***************************************************************************)
\* the wallet records of all stores
AllWallets ==
    UNION {{db[b].wallets[i] : i \in 1..Len(db[b].wallets)} : b \in Databases}

\* C17: every encryption draws a salt and an iv of its own: in every
\* reachable state no two stored wallets have the same salt or the same
\* iv, wallets generated under the same password included
C17_SaltAndIvNeverShared ==
    \A v \in AllWallets, w \in AllWallets :
        v # w => /\ v.salt # w.salt
                 /\ v.iv # w.iv
                 /\ v.encryptedPrivateKey # w.encryptedPrivateKey

\* two Ethereum wallets of one user, generated under the same password
C17_TwoWalletsOnePassword ==
    \E v \in AllWallets, w \in AllWallets :
        /\ v.id # w.id
        /\ v.userId = w.userId
        /\ v.walletType = "ethereum"
        /\ w.walletType = "ethereum"
        /\ v.encryptedPrivateKey.key.password = w.encryptedPrivateKey.key.password

(***************************************************************************)
(* Properties of the two stores (SpecTwin)                                 *)
(***************************************************************************)
\* a record without its id, its timestamps and its optional columns
Content(record) ==
    IF "walletType" \in DOMAIN record
    THEN [userId |-> record.userId, walletType |-> record.walletType,
          address |-> record.address]
    ELSE [walletId |-> record.walletId,
          transactionType |-> record.transactionType,
          hash |-> record.hash, status |-> record.status]

Contents(recs) == {Content(recs[i]) : i \in 1..Len(recs)}

\* C21: applied to the same sequence of operations from an empty connected
\* state, the MockDatabase and the MySQLDatabase return the same result to
\* every operation: both return or both throw, the same boolean, the same
\* set of records up to ids and timestamps
C21_StoresAgree ==
    last.op \in TwinOps
        => /\ last.ok = last.real.ok
           /\ last.bool = last.real.bool
           /\ Contents(last.recs) = Contents(last.real.recs)

\* after deleteWallet the MockDatabase still lists the wallet's
\* transactions and the MySQLDatabase lists none
C21_DeletedWalletStillListed ==
    /\ last.op = "getTransactionsByWallet"
    /\ last.recs # <<>>
    /\ last.real.recs = <<>>
    /\ ~\E i \in 1..Len(db["client"].wallets) : db["client"].wallets[i].id = last.id

(***************************************************************************)
(* Properties of the reconciliation pass (Spec)                            *)
(***************************************************************************)
Terminal == {"finished", "failed", "refunded"}

\* C22: updatePendingSwaps returns the number of records whose status the
\* pass changed: the pending swaps the exchange reported finished, failed or
\* refunded and whose update went through.  Sends and receives, records
\* already completed or failed and swaps still in progress at the exchange
\* are neither written nor counted.
C22_CountIsRecordsChanged ==
    [][ (last'.op = "updatePendingSwaps" /\ last'.ok)
            => LET before == db[Data("swapService")]
                   after == db'[Data("swapService")]
                   ids == {before.transactions[i].id : i \in 1..Len(before.transactions)}
                   changed == {id \in ids : StatusIn(after, id) # StatusIn(before, id)}
                   reported == {id \in OpenOrders : last'.responses[id] \in Terminal}
                   counted == {id \in reported : last'.fault # id}
               IN  /\ last'.count = Cardinality(counted)
                   /\ changed = counted
                   /\ Ids(last'.written) = reported
                   /\ \A id \in ids \ OpenOrders :
                        /\ id \notin Ids(last'.asked)
                        /\ id \notin Ids(last'.written)
                   /\ \A id \in ids \ counted :
                        after.transactions[FindIndex(after.transactions, id)]
                            = before.transactions[FindIndex(before.transactions, id)]
      ]_vars

\* a pass changed and counted one swap and left a pending send alone
C22_OneCountedSendUntouched ==
    /\ last.op = "updatePendingSwaps" /\ last.ok
    /\ last.count = 1
    /\ Len(last.written) = 1
    /\ \E i \in 1..Len(db[Data("swapService")].transactions) :
          /\ db[Data("swapService")].transactions[i].transactionType = "send"
          /\ db[Data("swapService")].transactions[i].status = "pending"
          /\ db[Data("swapService")].transactions[i].id \notin Ids(last.asked)

(***************************************************************************)
(* Properties of the reconciliation pass (SpecReconcile)                   *)
(***************************************************************************)
\* the stored status an exchange status stands for; "none" for a status
\* outside the seven
Coarse(fine) ==
    CASE fine = "finished" -> "completed"
      [] fine \in {"failed", "refunded"} -> "failed"
      [] fine \in {"waiting", "confirming", "exchanging", "sending"} -> "pending"
      [] OTHER -> "none"

\* C23: the status a pass writes for a record is the projection of the
\* status the exchange reported: completed for finished, failed for failed
\* and refunded; for waiting, confirming, exchanging and sending, and for
\* any other status, nothing is written and the record stays pending
C23_WrittenStatusIsProjection ==
    [][ (last'.op = "updatePendingSwaps" /\ last'.ok)
            => LET after == db'[Data("swapService")]
               IN  \A id \in OpenOrders :
                     LET fine == last'.responses[id]
                     IN  /\ Coarse(fine) \in {"completed", "failed"}
                            => /\ Times(last'.written, id) = 1
                               /\ last'.fault # id => StatusIn(after, id) = Coarse(fine)
                         /\ Coarse(fine) \in {"pending", "none"}
                            => /\ Times(last'.written, id) = 0
                               /\ StatusIn(after, id) = "pending"
      ]_vars

\* one pass left a swap the exchange is sending pending and failed a
\* refunded one
C23_SendingKeptRefundedFailed ==
    /\ last.op = "updatePendingSwaps" /\ last.ok
    /\ DOMAIN last.responses = {1, 2}
    /\ last.responses[1] = "sending"
    /\ last.responses[2] = "refunded"
    /\ StatusIn(db[Data("swapService")], 1) = "pending"
    /\ StatusIn(db[Data("swapService")], 2) = "failed"

\* the wallet with this id in store b, as a set (empty if there is none)
WalletAt(d, id) == {d.wallets[i] : i \in {j \in 1..Len(d.wallets) : d.wallets[j].id = id}}

\* what updateWallet must leave as it is in the wallet it updates
Identity(w) == [id |-> w.id, userId |-> w.userId, walletType |-> w.walletType]

\* updateWallet(id, fields) on the store that held before and holds after,
\* having returned bool
UpdateKeepsFrame(before, after, id, bool) ==
    /\ after.transactions = before.transactions
    /\ Len(after.wallets) = Len(before.wallets)
    /\ \A i \in 1..Len(before.wallets) :
          IF before.wallets[i].id = id
          THEN Identity(after.wallets[i]) = Identity(before.wallets[i])
          ELSE after.wallets[i] = before.wallets[i]
    /\ WalletAt(before, id) = {} => (~bool /\ after = before)
    /\ WalletAt(before, id) # {} => bool

\* C27: updateWallet(id, fields) changes only the address, the encrypted
\* secret with salt and iv, the network and the chain id of the wallet with
\* that id: its id, owner and type and every other wallet are unchanged; for
\* an unknown id it returns false and changes nothing
C27_UpdateWalletFrame ==
    [][ last'.op = "updateWallet"
            => /\ UpdateKeepsFrame(db["client"], db'["client"], last'.id, last'.bool)
               /\ UpdateKeepsFrame(db["mysql"], db'["mysql"], last'.id, last'.real.bool)
      ]_vars

\* an updateWallet on the MockDatabase gave the wallet to another user
C27_MockChangesOwner ==
    /\ last.op = "updateWallet"
    /\ last.bool
    /\ \E w \in WalletAt(db["client"], last.id) : w.userId = "bob"
    /\ \E w \in WalletAt(db["mysql"], last.id) : w.userId = Owner


(***************************************************************************)
(* Referential integrity of the store (SpecStore)                          *)
(***************************************************************************)
\* the transactions of store b whose walletId is the id of no wallet of b
Orphans(b) ==
    {i \in 1..Len(db[b].transactions) :
        db[b].transactions[i].walletId \notin
            {db[b].wallets[j].id : j \in 1..Len(db[b].wallets)}}

\* C28: in every reachable state the walletId of every stored transaction
\* is the id of a wallet that is in the same store at that moment
C28_TransactionsReferToWallets ==
    \A b \in Databases : Orphans(b) = {}

\* C28, the state that contradicts it: the mock store deleted a wallet and
\* keeps a transaction of that wallet
C28_MockHoldsOrphan ==
    /\ useMock
    /\ last.op = "deleteWallet" /\ last.ok /\ last.bool
    /\ \E i \in Orphans(Data(last.h)) :
            db[Data(last.h)].transactions[i].walletId = last.id

(***************************************************************************)
(* Failure of createSwap (SpecSwaps)                                       *)
(***************************************************************************)
\* C29: a createSwap that fails, whatever the reason, leaves the stored
\* transactions of the store as they were before the call
C29_FailedSwapLeavesNoRecord ==
    [][(last'.op = "createSwap" /\ ~last'.ok)
        => db'[Data("swapService")].transactions
             = db[Data("swapService")].transactions]_vars

\* C29, the state that contradicts it: createSwap failed on the re-read of
\* the row it had inserted, and the row is in the store
C29_FailedSwapLeftRecord ==
    /\ last.op = "createSwap"
    /\ ~last.ok
    /\ last.fault = 3
    /\ Len(last.error) >= 2
    /\ last.error[2] = RecordFailed
    /\ \E i \in 1..Len(db[Data("swapService")].transactions) :
            /\ db[Data("swapService")].transactions[i].transactionType = "swap"
            /\ db[Data("swapService")].transactions[i].hash = OrderId(orders)


(***************************************************************************)
(* The batch of four wallets (SpecWallets)                                 *)
(***************************************************************************)
\* the wallet types of the wallets of seq from position n + 1 on
AddedTypes(seq, n) == [i \in 1..(Len(seq) - n) |-> seq[n + i].walletType]

\* C30: generateAndStoreWallets is all-or-nothing: a call that succeeds has
\* added four wallets of the user to the store, one of each of ethereum,
\* bitcoin, solana and tron, and a call that fails leaves the wallets of
\* the store as they were before the call
C30_BatchIsAllOrNothing ==
    [][last'.op = "generateAndStoreWallets"
        => LET before == db[Data("walletService")].wallets
               after == db'[Data("walletService")].wallets
           IN  /\ last'.ok
                    => /\ Len(after) = Len(before) + 4
                       /\ SubSeq(after, 1, Len(before)) = before
                       /\ AddedTypes(after, Len(before))
                            = <<"ethereum", "bitcoin", "solana", "tron">>
                       /\ \A i \in (Len(before) + 1)..Len(after) :
                            after[i].userId = Owner
               /\ ~last'.ok => after = before]_vars

\* C30, the state that contradicts it: the call failed and the store holds
\* the wallets it had created before the failure
C30_FailedBatchLeftWallets ==
    /\ last.op = "generateAndStoreWallets"
    /\ ~last.ok
    /\ last.wasConnected
    /\ AddedTypes(db[Data("walletService")].wallets, 0) = <<"ethereum", "bitcoin">>


(***************************************************************************)
(* Overlapping reconciliation passes (SpecOverlap)                         *)
(***************************************************************************)
\* the records of the swap service that are no longer pending; in
\* SpecOverlap only a pass changes a status
LeftPending ==
    {i \in 1..Len(db[Data("swapService")].transactions) :
        db[Data("swapService")].transactions[i].status # "pending"}

\* C24: when two updatePendingSwaps calls overlap, a record one call has
\* moved to completed or failed is not written by the other: no record is
\* written by both calls, and once both have returned their counts sum to
\* the number of records that left pending
C24_OverlappingPassesWriteOnce ==
    /\ Ids(running[1].written) \cap Ids(running[2].written) = {}
    /\ (running[1].pc = "returned" /\ running[2].pc = "returned")
            => running[1].updatedCount + running[2].updatedCount
                    = Cardinality(LeftPending)

\* C24, the state that contradicts it: both calls returned 1 and one
\* record left pending, written by the one and again by the other with
\* another status
C24_OneRecordCountedTwice ==
    /\ running[1].pc = "returned" /\ running[2].pc = "returned"
    /\ running[1].written = <<1>> /\ running[2].written = <<1>>
    /\ running[1].updatedCount = 1 /\ running[2].updatedCount = 1
    /\ Cardinality(LeftPending) = 1


(***************************************************************************)
(* Concurrent swap creation (SpecRace)                                     *)
(***************************************************************************)
\* caller p is back from a createSwap that returned a record
SwapReturned(p) ==
    running[p].op = "createSwap" /\ running[p].pc = "returned"

\* the record the call of caller p returned is in the store as returned,
\* under the order id the exchange gave to that call
RecordKept(p) ==
    LET stored == db[Data("swapService")].transactions
        given == running[p].recs[1]
    IN  /\ given.hash = running[p].swap
        /\ given.walletId = running[p].walletId
        /\ \E i \in 1..Len(stored) : stored[i] = given

\* C25: two createSwap calls that overlap at their store and exchange
\* requests both succeed when they find their wallet and no request fails,
\* and leave two records with different ids, each under the order id of
\* its own call; the record of the one is never overwritten or lost
\* through the other
C25_ConcurrentSwapsBothRecorded ==
    /\ \A p \in Procs :
        /\ SwapReturned(p) => RecordKept(p)
        /\ (running[p].op = "createSwap" /\ running[p].pc = "thrown"
                /\ running[p].fault = 0)
              => running[p].wallet = <<>>
    /\ (SwapReturned(1) /\ SwapReturned(2))
        => /\ running[1].recs[1].id # running[2].recs[1].id
           /\ running[1].recs[1].hash # running[2].recs[1].hash
           /\ Len(db[Data("swapService")].transactions) = 2

\* both calls returned for the same wallet, and they overlapped: the first
\* caller placed its order first and wrote its record last
C25_InterleavedSwapsOfOneWallet ==
    /\ SwapReturned(1) /\ SwapReturned(2)
    /\ running[1].walletId = running[2].walletId
    /\ running[1].swap = OrderId(1) /\ running[1].recs[1].id = 2
    /\ running[2].swap = OrderId(2) /\ running[2].recs[1].id = 1


(***************************************************************************)
(* Repeated reconciliation (SpecRetry)                                     *)
(***************************************************************************)
\* transaction id is a swap whose status request the exchange answers with
\* a final status
Settled(id) ==
    LET d == db[Data("swapService")]
        index == FindIndex(d.transactions, id)
    IN  /\ index # 0
        /\ d.transactions[index].transactionType = "swap"
        /\ StatusAnswer(d.transactions[index].hash)
                \in {"finished", "failed", "refunded"}

\* transaction id has the status completed or failed
Reconciled(id) ==
    LET d == db[Data("swapService")]
        index == FindIndex(d.transactions, id)
    IN  /\ index # 0
        /\ d.transactions[index].status \in {"completed", "failed"}

=============================================================================
